---------------------------- MODULE Spec2Model ----------------------------
(***************************************************************************)
(* Model of the sync-free dependency scheduler of                          *)
(* common/cuda_hip/components/syncfree.hpp: syncfree_storage (the status   *)
(* array with the block counter in its last slot) and syncfree_scheduler   *)
(* (constructor, get_work_id, wait, peek, mark_ready), run by the threads *)
(* of a kernel launch.                                                     *)
(*                                                                         *)
(* A thread is a pair (g, t): g the physical thread block (blockIdx.x), t  *)
(* its threadIdx.x.  Every lane-group (subwarp) of subwarp_size threads    *)
(* owns one work item.  The kernel run by every lane-group is the consumer *)
(* contract: wait for every dependency of the item, read the dependency's  *)
(* output, write the own output, mark_ready.  Two more kernels exercise    *)
(* peek (peek(d) before every wait(d)) and a second mark_ready call.       *)
(*                                                                         *)
(* Memory ordering is modelled with views: vis[g][t] is the set of output  *)
(* writes that happen-before the thread's current position.  A release     *)
(* store attaches the writer's view to the flag, an acquire load that      *)
(* reads the flag joins that view, a barrier joins the views of its        *)
(* participants.  A plain read of an output cell whose write is not in the *)
(* reader's view is a race: it yields the old or the new value.            *)
(***************************************************************************)
EXTENDS Integers, Sequences, FiniteSets, TLC

\* ------------------------------------------------------------------ bounds
\* the largest number of thread blocks of a launch
MaxGroups == 2
\* the largest number of work items of a launch
MaxItems == 4

VARIABLES
    block_size,      \* template parameter block_size (threads per block)
    index_bits,      \* template parameter IndexType: its width in bits
    subwarp_size,    \* template parameter subwarp_size (lanes per lane-group)
    num_groups,      \* number of thread blocks of the launch (gridDim.x)
    num_elements,    \* syncfree_storage's num_elements (work items)
    max_resident,    \* blocks the device can keep resident at once
    deps,            \* deps[w]: the dependencies the kernel waits for, item w
    status,          \* global.status[0..num_elements]; the last is block_counter
    status_view,     \* view released with each global flag
    local,           \* local[g]: shared_storage {status[], block_offset}
    local_view,      \* view released with each shared flag
    work_id,         \* work_id[g][t]: the member work_id
    block_id,        \* block_id[g][t]: the member block_id
    pc,              \* pc[g][t]: position of the thread
    dep_idx,         \* dep_idx[g][s]: which dependency lane-group s waits for
    out,             \* out[w][l]: output of item w, the part lane l writes
    vis,             \* vis[g][t]: output writes visible to the thread
    acc,             \* acc[g][t]: sum of the dependency outputs read so far
    rd,              \* rd[g][t]: the reads the thread made after its waits
    order,           \* blocks in the order of their atomic_add
    stores,          \* stores[i]: the threads that stored to global.status[i]
    has_storage,     \* the syncfree_storage object has been constructed
    kernel,          \* the kernel the launch runs
    peeked,          \* peeked[g][t]: what the thread's last peek returned
    spun,            \* spun[g][t]: the counted wait has read a zero word
    marked,          \* marked[g][t]: mark_ready calls the thread returned from
    invocation,      \* which kernel invocation on the storage is running
    omits,           \* omits[w]: the store the mark_ready run for item w lacks
    lane_deps,       \* lane_deps[w]: what the lanes other than lane 0 pass to
                     \* wait in the lane-group of item w
    prior            \* what the invocation before this one left behind

vars == <<block_size, index_bits, subwarp_size, num_groups, num_elements, max_resident,
          deps, status, status_view, local, local_view, work_id, block_id,
          pc, dep_idx, out, vis, acc, rd, order, stores, has_storage,
          kernel, peeked, spun, marked, invocation, omits, lane_deps,
          prior>>

\* what no step of the device changes: the launch and the storage handle
config == <<block_size, index_bits, subwarp_size, num_groups, num_elements, max_resident,
            deps, has_storage, kernel, invocation, omits, lane_deps,
            prior>>

\* ------------------------------------------------------------ launch shape
local_dependency_count == block_size \div subwarp_size

Groups == 0 .. num_groups - 1
Tids == 0 .. block_size - 1
Lanes == 0 .. subwarp_size - 1
Slots == 0 .. local_dependency_count - 1
Items == 0 .. num_elements - 1

get_lane(t) == t % subwarp_size

\* the lane-group (subwarp) of thread t within its block, and its threads
SubwarpOf(t) == t \div subwarp_size
SubwarpTids(s) == {t \in Tids : SubwarpOf(t) = s}

NotReady == 0
Ready == 1

\* a word of shared memory no thread has written since the block started
Uninit == -1

\* what a load of a shared word can return: an uninitialised word holds any
\* value, zero or non-zero
LoadShared(word) == IF word = Uninit THEN {NotReady, Ready} ELSE {word}

\* ---------------------------------------------------------- IndexType
\* the width of int, the type of a status word and of the value atomic_add
\* returns, and of the IndexType of the instantiations for 32-bit indices
IntBits == 32

\* the values of IndexType, a signed integer of index_bits bits
IndexMax == (2 ^ (index_bits - 2) - 1) * 2 + 1
IndexMin == -IndexMax - 1
IndexType == IndexMin .. IndexMax

\* the outcomes of a signed IndexType operation whose exact result is x:
\* x when it is representable; an overflow is undefined, any value can result
InIndexType(x) ==
    IF IndexMin <= x /\ x <= IndexMax THEN {x} ELSE IndexType

\* integer division of C++: the quotient is truncated towards zero
Quotient(a, b) == IF a >= 0 THEN a \div b ELSE -((-a) \div b)

\* ------------------------------------------------- pure parts of the code
\* variant: the counter value is scaled by the items of a block, not by
\* its threads
BlockOffset_Items(c) == c * (block_size \div subwarp_size)

\* local.block_offset = atomic_add(global.block_counter, 1) * block_size
BlockOffset(c) == c * block_size

\* block_id = local.block_offset / block_size
BlockIdOf(offset) == Quotient(offset, block_size)

\* variant: threadIdx.x is left out, every thread gets the block's first id
WorkIdOf_NoThread(offset, t) == offset \div subwarp_size

\* variant: the thread offset is divided by block_size
WorkIdOf_PerBlock(offset, t) == (offset + t) \div block_size

\* work_id = (local.block_offset + threadIdx.x) / subwarp_size
WorkIdOf(offset, t) == Quotient(offset + t, subwarp_size)

\* the work ids the threads of a block can end up with from the offsets they
\* read: the sum is an IndexType operation
WorkIdsOf(offset) ==
    IF \A t \in DOMAIN offset : InIndexType(offset[t] + t) = {offset[t] + t}
    THEN {[t \in DOMAIN offset |-> WorkIdOf(offset[t], t)]}
    ELSE {wid \in [DOMAIN offset ->
                     {Quotient(x, subwarp_size) : x \in IndexType}] :
             \A t \in DOMAIN offset :
                 \E x \in InIndexType(offset[t] + t) :
                     wid[t] = Quotient(x, subwarp_size)}

\* variant: only thread 0 resets, and only its first slot
ResetSlots_FirstOnly(t) == IF t = 0 THEN {0} ELSE {}

\* for (i = threadIdx.x; i < local_dependency_count; i += subwarp_size)
ResetSlots(t) ==
    {i \in Slots : i >= t /\ (i - t) % subwarp_size = 0}

\* variant: the dependency's block is found by dividing by block_size
DepBlock_PerThread(dependency) == dependency \div block_size

\* dep_block and dep_local of wait and peek
DepBlock(dependency) == dependency \div (block_size \div subwarp_size)
DepLocal(dependency) == dependency % (block_size \div subwarp_size)

IsLocal(g, t, dependency) == DepBlock(dependency) = block_id[g][t]

\* variant: a global dependency is polled in the shared storage of the block
\* that owns it
FlagOf_OwnerCache(g, t, dependency) ==
    IF IsLocal(g, t, dependency)
    THEN LoadShared(local[g].status[DepLocal(dependency)])
    ELSE LET owners == {h \in Groups : block_id[h][0] = DepBlock(dependency)}
         IN IF owners = {}
            THEN {NotReady}
            ELSE UNION {LoadShared(local[h].status[DepLocal(dependency)]) :
                           h \in owners}

\* the values a load of the flag wait/peek select can return, and the view
\* released with that flag
FlagOf(g, t, dependency) ==
    IF IsLocal(g, t, dependency)
    THEN LoadShared(local[g].status[DepLocal(dependency)])
    ELSE {status[dependency]}

\* variant: the Status Store flag is read with a relaxed load, which joins
\* no view
FlagViewOf_RelaxedGlobal(g, t, dependency) ==
    IF IsLocal(g, t, dependency)
    THEN local_view[g][DepLocal(dependency)]
    ELSE {}

FlagViewOf(g, t, dependency) ==
    IF IsLocal(g, t, dependency)
    THEN local_view[g][DepLocal(dependency)]
    ELSE status_view[dependency]

\* --------------------------------------------------------- kernel program
\* the kernels: the consumer contract; the contract with a peek(d) before
\* every wait(d) and the loop iterations of wait counted; the contract with
\* mark_ready called twice; the contract in which a lane-group whose work id
\* is no item waits for every item and returns ("probe"), or calls
\* mark_ready as every other lane-group does ("unguarded"); the contract on
\* a scheduler whose mark_ready lacks one of its two stores ("omit"); the
\* contract in which only lane 0 passes the dependency to wait, the other
\* lanes pass an item of their own ("lanes")
Kernels == {"contract", "peek", "twice", "probe", "unguarded", "omit", "lanes"}

\* the store mark_ready lacks, by the item it is run for: none, but in the
\* launches that try the scheduler without one of them
Omissions ==
    IF kernel = "omit"
    THEN [Items -> {"local", "global"}]
    ELSE {[w \in Items |-> "none"]}

\* the dependencies the kernel waits for with work id w
DepsOf(w) ==
    IF w \in Items
    THEN deps[w]
    ELSE IF kernel = "probe"
         THEN [k \in 1 .. num_elements |-> k - 1]
         ELSE <<>>

\* what the lanes other than lane 0 pass to wait, by the item of their
\* lane-group: any item, ready or not, in the launches whose lanes pass
\* arguments of their own; no other launch uses it
LaneArguments ==
    IF kernel = "lanes"
    THEN [Items -> Items]
    ELSE {[w \in Items |-> 0]}

\* the dependency thread (g, t) passes to its current wait call
Dependency(g, t) ==
    IF kernel = "lanes" /\ get_lane(t) # 0
    THEN lane_deps[work_id[g][t]]
    ELSE DepsOf(work_id[g][t])[dep_idx[g][SubwarpOf(t)]]

HasMoreDeps(w, k) == k <= Len(DepsOf(w))

\* a thread enters wait: lane 0 goes to the loop, the others to the sync()
WaitEntry(t) == IF get_lane(t) = 0 THEN "wait_poll" ELSE "wait_sync"

\* where a thread continues once it holds its ids or a wait has returned
AfterWait(w, k, t) ==
    IF HasMoreDeps(w, k)
    THEN IF kernel = "peek" THEN "peek" ELSE WaitEntry(t)
    ELSE IF w \in Items
         THEN "write"
         ELSE IF kernel = "unguarded" THEN "mr_sync" ELSE "done"

\* where a thread continues when it returns from mark_ready
AfterMarkReady(g, t) ==
    IF kernel = "twice" /\ marked[g][t] = 0 THEN "mr_sync" ELSE "done"

\* marked once the threads ts of block g have returned from mark_ready
Returned(g, ts) ==
    [marked EXCEPT ![g] = [t \in Tids |-> IF t \in ts THEN @[t] + 1 ELSE @[t]]]

\* a plain read of part l of the output of item d through view v: a cell
\* whose write is in v is read as written, any other read races with the
\* writer and yields the value before the write or the written one
ReadCell(d, l, v) == IF <<d, l>> \in v THEN {out[d][l]} ELSE {0, out[d][l]}

\* the kernel reads every part of the dependency's output
ReadOutput(d, v) == {cells \in [Lanes -> UNION {ReadCell(d, l, v) : l \in Lanes}] :
                        \A l \in Lanes : cells[l] \in ReadCell(d, l, v)}

\* and uses the part its neighbour lane of the producer wrote
UsedPart(t) == (get_lane(t) + 1) % subwarp_size

JoinViews(g, ts) == UNION {vis[g][t] : t \in ts}

Resident(g) ==
    /\ \E t \in Tids : pc[g][t] # "pending"
    /\ \E t \in Tids : pc[g][t] # "done"

Exited(g) == \A t \in Tids : pc[g][t] = "done"


\* ------------------------------------------------------ dependency graphs
\* the kernels' dependency relations: item w depends on smaller ids only
Chain(n) == [w \in 0 .. n - 1 |-> IF w = 0 THEN <<>> ELSE <<w - 1>>]
Star(n) == [w \in 0 .. n - 1 |-> IF w = 0 THEN <<>> ELSE <<0>>]
AllSmaller(n) == [w \in 0 .. n - 1 |-> [k \in 1 .. w |-> k - 1]]

ContractGraphs(n) == {Chain(n), Star(n), AllSmaller(n)}

\* the diamond: item 3 waits for items 1 and 2, which wait for item 0
Diamond ==
    [w \in 0 .. 3 |-> IF w = 0 THEN <<>> ELSE IF w = 3 THEN <<1, 2>> ELSE <<0>>]

\* the value of item w when the items are computed one after another in
\* index order: one more than the sum of the values of its dependencies
RECURSIVE Sequential(_, _), SumDeps(_, _, _)
SumDeps(graph, w, k) ==
    IF k = 0
    THEN 0
    ELSE Sequential(graph, graph[w][k]) + SumDeps(graph, w, k - 1)

Sequential(graph, w) == SumDeps(graph, w, Len(graph[w])) + 1

\* the elements of a set of ids as a sequence, smallest first
Ascending(S) ==
    [k \in 1 .. Cardinality(S) |->
        CHOOSE x \in S : Cardinality({y \in S : y < x}) = k - 1]

\* every relation in which each item depends on smaller ids only
AllRelations(n) ==
    {[w \in 0 .. n - 1 |-> Ascending(pick[w])] :
        pick \in {f \in [0 .. n - 1 -> SUBSET (0 .. n - 1)] :
                    \A w \in 0 .. n - 1 : f[w] \subseteq 0 .. w - 1}}


\* the instantiations <<block_size, subwarp_size>> of the scheduler checked:
\* one or two lane-groups per block, of one or two lanes
Instantiations == {<<1, 1>>, <<2, 1>>, <<2, 2>>, <<4, 2>>}

\* the launches checked: every instantiation on up to MaxGroups blocks, any
\* number of them resident at once, over exactly
\* num_groups * local_dependency_count items, at most MaxItems
Shapes ==
    {sh \in [groups : 1 .. MaxGroups, inst : Instantiations,
             resident : 1 .. MaxGroups] :
        /\ sh.resident <= sh.groups
        /\ sh.groups * (sh.inst[1] \div sh.inst[2]) <= MaxItems}

\* ------------------------------------------------------------------- Init
\* syncfree_storage's constructor has run: num_elements + 1 zero words
InitStore ==
    /\ status = [i \in 0 .. num_elements |-> 0]
    /\ status_view = [i \in 0 .. num_elements |-> {}]
    /\ stores = [i \in 0 .. num_elements |-> <<>>]
    /\ has_storage = TRUE

InitThreads ==
    /\ local = [g \in Groups |->
                  [status |-> [i \in Slots |-> NotReady], block_offset |-> 0]]
    /\ local_view = [g \in Groups |-> [i \in Slots |-> {}]]
    /\ work_id = [g \in Groups |-> [t \in Tids |-> -1]]
    /\ block_id = [g \in Groups |-> [t \in Tids |-> -1]]
    /\ pc = [g \in Groups |-> [t \in Tids |-> "pending"]]
    /\ dep_idx = [g \in Groups |-> [s \in Slots |-> 1]]
    /\ out = [w \in Items |-> [l \in Lanes |-> 0]]
    /\ vis = [g \in Groups |-> [t \in Tids |-> {}]]
    /\ acc = [g \in Groups |-> [t \in Tids |-> 0]]
    /\ rd = [g \in Groups |-> [t \in Tids |-> <<>>]]
    /\ order = <<>>
    /\ peeked = [g \in Groups |-> [t \in Tids |-> "none"]]
    /\ spun = [g \in Groups |-> [t \in Tids |-> FALSE]]
    /\ marked = [g \in Groups |-> [t \in Tids |-> 0]]
    /\ invocation = "first"
    /\ omits \in Omissions
    /\ lane_deps \in LaneArguments
    /\ prior = <<>>

InitShape(sh) ==
    /\ block_size = sh.inst[1]
    /\ index_bits = IntBits
    /\ subwarp_size = sh.inst[2]
    /\ num_groups = sh.groups
    /\ num_elements = sh.groups * (sh.inst[1] \div sh.inst[2])
    /\ max_resident = sh.resident

Init ==
    /\ \E sh \in Shapes : InitShape(sh)
    /\ deps \in ContractGraphs(num_elements)
    /\ kernel = "contract"
    /\ InitStore
    /\ InitThreads

\* ---------------------------------------------------------------- actions
\* the words an array can hold from an earlier use: flags, counter values
StaleWords == 0 .. MaxGroups

\* the arrays the caller can hand to syncfree_storage for n items: empty,
\* or used before for fewer or for as many items
PriorArrays(n) ==
    UNION {[0 .. len - 1 -> StaleWords] : len \in {0, n, n + 1}}

\* array::resize_and_reset(size): an array of that size keeps its content,
\* any other is replaced by a fresh one whose content is indeterminate
resize_and_reset(arr, size) ==
    IF DOMAIN arr = 0 .. size - 1
    THEN {arr}
    ELSE [0 .. size - 1 -> StaleWords]

\* components::fill_array(exec, data, size, value)
fill_array(arr, size, value) ==
    [i \in DOMAIN arr |-> IF i < size THEN value ELSE arr[i]]

\* variant: only the flags are filled, the counter slot is left as it was
Storage_FlagsOnly ==
    /\ ~has_storage
    /\ \E fresh \in resize_and_reset(status, num_elements + 1) :
          status' = fill_array(fresh, num_elements, 0)
    /\ has_storage' = TRUE
    /\ UNCHANGED <<block_size, index_bits, subwarp_size, num_groups, num_elements,
                   max_resident, deps, kernel, status_view, local, local_view,
                   work_id, block_id, pc, dep_idx, out, vis, acc, rd, order,
                   stores, peeked, spun, marked, invocation, omits, lane_deps,
                   prior>>

\* syncfree_storage's constructor: the array is resized to num_elements + 1
\* words, status points to its data and block_counter to the last word, and
\* all of them are filled with zero
Storage ==
    /\ ~has_storage
    /\ \E fresh \in resize_and_reset(status, num_elements + 1) :
          status' = fill_array(fresh, num_elements + 1, 0)
    /\ has_storage' = TRUE
    /\ UNCHANGED <<block_size, index_bits, subwarp_size, num_groups, num_elements,
                   max_resident, deps, kernel, status_view, local, local_view,
                   work_id, block_id, pc, dep_idx, out, vis, acc, rd, order,
                   stores, peeked, spun, marked, invocation, omits, lane_deps,
                   prior>>

\* a thread other than thread 0 whose reset loop has no iteration does nothing
\* before __syncthreads()
CtorEntry(t) == IF t = 0 \/ ResetSlots(t) # {} THEN "ctor" ELSE "ctor_sync"

\* the device makes block g resident: the kernel was given the storage, a
\* slot is free, the block's shared storage is uninitialised and its threads
\* enter the constructor
Launch(g) ==
    /\ has_storage
    /\ \A t \in Tids : pc[g][t] = "pending"
    /\ Cardinality({h \in Groups : Resident(h)}) < max_resident
    /\ local' = [local EXCEPT ![g] =
                   [status |-> [i \in Slots |-> Uninit], block_offset |-> Uninit]]
    /\ pc' = [pc EXCEPT ![g] = [t \in Tids |-> CtorEntry(t)]]
    /\ UNCHANGED <<config, peeked, spun, marked, status, status_view, local_view, work_id,
                   block_id, dep_idx, out, vis, acc, rd, order, stores>>

\* variant: the range is bound to the physical block index blockIdx.x, the
\* counter is not used
Constructor_StaticRange(g, t) ==
    /\ pc[g][t] = "ctor"
    /\ IF t = 0
       THEN order' = Append(order, g)
       ELSE UNCHANGED order
    /\ local' = [local EXCEPT ![g] =
                   [status |-> [i \in Slots |->
                                  IF i \in ResetSlots(t) THEN 0 ELSE @.status[i]],
                    block_offset |-> IF t = 0
                                     THEN BlockOffset(g)
                                     ELSE @.block_offset]]
    /\ pc' = [pc EXCEPT ![g][t] = "ctor_sync"]
    /\ UNCHANGED <<config, peeked, spun, marked, status, status_view, local_view, work_id, block_id,
                   dep_idx, out, vis, acc, rd, stores>>

\* variant: the counter is read and written back incremented, not with one
\* atomic operation: the value written back can be based on an earlier read
Constructor_NonAtomic(g, t) ==
    /\ pc[g][t] = "ctor"
    /\ \E c \in 0 .. status[num_elements] :
          /\ IF t = 0
             THEN /\ status' = [status EXCEPT ![num_elements] = c + 1]
                  /\ order' = Append(order, g)
             ELSE UNCHANGED <<status, order>>
          /\ local' = [local EXCEPT ![g] =
                [status |-> [i \in Slots |->
                               IF i \in ResetSlots(t) THEN 0 ELSE @.status[i]],
                 block_offset |-> IF t = 0
                                  THEN BlockOffset(c)
                                  ELSE @.block_offset]]
    /\ pc' = [pc EXCEPT ![g][t] = "ctor_sync"]
    /\ UNCHANGED <<config, peeked, spun, marked, status_view, local_view,
                   work_id, block_id, dep_idx, out, vis, acc, rd, stores>>

\* variant: the atomic_add and the store of the offset are not restricted to
\* thread 0, every thread of the block executes them
Constructor_EveryThread(g, t) ==
    /\ pc[g][t] = "ctor"
    /\ status' = [status EXCEPT ![num_elements] = @ + 1]
    /\ order' = Append(order, g)
    /\ local' = [local EXCEPT ![g] =
                   [status |-> [i \in Slots |->
                                  IF i \in ResetSlots(t) THEN 0 ELSE @.status[i]],
                    block_offset |-> BlockOffset(status[num_elements])]]
    /\ pc' = [pc EXCEPT ![g][t] = "ctor_sync"]
    /\ UNCHANGED <<config, peeked, spun, marked, status_view, local_view, work_id, block_id,
                   dep_idx, out, vis, acc, rd, stores>>

\* the constructor up to __syncthreads(): thread 0 claims the block's range
\* with atomic_add on block_counter, every thread resets its slots
Constructor(g, t) ==
    /\ pc[g][t] = "ctor"
    /\ IF t = 0
       THEN /\ status' = [status EXCEPT ![num_elements] = @ + 1]
            /\ order' = Append(order, g)
       ELSE UNCHANGED <<status, order>>
    /\ \E product \in InIndexType(BlockOffset(status[num_elements])) :
          local' = [local EXCEPT ![g] =
                      [status |-> [i \in Slots |->
                                     IF i \in ResetSlots(t) THEN 0 ELSE @.status[i]],
                       block_offset |-> IF t = 0
                                        THEN product
                                        ELSE @.block_offset]]
    /\ pc' = [pc EXCEPT ![g][t] = "ctor_sync"]
    /\ UNCHANGED <<config, peeked, spun, marked, status_view, local_view, work_id, block_id,
                   dep_idx, out, vis, acc, rd, stores>>

\* the block offsets a read of local.block_offset can return
LoadOffset(g) ==
    IF local[g].block_offset = Uninit
    THEN {BlockOffset(c) : c \in 0 .. num_groups - 1}
    ELSE {local[g].block_offset}

\* variant: no __syncthreads(), a thread goes on without the others
CtorSync_NoBarrier(g) ==
    /\ \E t \in Tids : pc[g][t] = "ctor_sync"
    /\ LET here == {t \in Tids : pc[g][t] = "ctor_sync"}
       IN \E offset \in [here -> LoadOffset(g)] :
            /\ block_id' = [block_id EXCEPT ![g] =
                  [t \in Tids |-> IF t \in here THEN BlockIdOf(offset[t]) ELSE @[t]]]
            /\ work_id' = [work_id EXCEPT ![g] =
                  [t \in Tids |-> IF t \in here THEN WorkIdOf(offset[t], t) ELSE @[t]]]
            /\ pc' = [pc EXCEPT ![g] =
                  [t \in Tids |-> IF t \in here
                                  THEN AfterWait(WorkIdOf(offset[t], t), 1, t)
                                  ELSE @[t]]]
    /\ UNCHANGED <<config, peeked, spun, marked, status, status_view, local, local_view, dep_idx,
                   out, vis, acc, rd, order, stores>>

\* __syncthreads() releases the block; every thread reads block_offset and
\* sets block_id and work_id, then the kernel starts on the work item
CtorSync(g) ==
    /\ \A t \in Tids : pc[g][t] = "ctor_sync"
    /\ \E offset \in [Tids -> LoadOffset(g)] :
         \E wid \in WorkIdsOf(offset) :
            /\ block_id' = [block_id EXCEPT ![g] =
                              [t \in Tids |-> BlockIdOf(offset[t])]]
            /\ work_id' = [work_id EXCEPT ![g] = wid]
            /\ pc' = [pc EXCEPT ![g] =
                        [t \in Tids |-> AfterWait(wid[t], 1, t)]]
    /\ vis' = [vis EXCEPT ![g] = [t \in Tids |-> JoinViews(g, Tids)]]
    /\ UNCHANGED <<config, peeked, spun, marked, status, status_view, local, local_view, dep_idx,
                   out, acc, rd, order, stores>>

\* variant: peek loops until the flag is set, as wait does
Peek_Spin(g, t) ==
    /\ pc[g][t] = "peek"
    /\ \E word \in FlagOf(g, t, Dependency(g, t)) :
          /\ word # 0
          /\ peeked' = [peeked EXCEPT ![g][t] = "true"]
          /\ vis' = [vis EXCEPT ![g][t] =
                       @ \cup FlagViewOf(g, t, Dependency(g, t))]
    /\ pc' = [pc EXCEPT ![g][t] = WaitEntry(t)]
    /\ UNCHANGED <<config, spun, marked, status, status_view, local,
                   local_view, work_id, block_id, dep_idx, out, acc, rd,
                   order, stores>>

\* peek: the calling thread loads the flag of the dependency once, with
\* load_acquire(_shared), and returns whether it is non-zero; the kernel
\* then calls wait for the same dependency
Peek(g, t) ==
    /\ pc[g][t] = "peek"
    /\ \E word \in FlagOf(g, t, Dependency(g, t)) :
          IF word # 0
          THEN /\ peeked' = [peeked EXCEPT ![g][t] = "true"]
               /\ vis' = [vis EXCEPT ![g][t] =
                            @ \cup FlagViewOf(g, t, Dependency(g, t))]
          ELSE /\ peeked' = [peeked EXCEPT ![g][t] = "false"]
               /\ UNCHANGED vis
    /\ pc' = [pc EXCEPT ![g][t] = WaitEntry(t)]
    /\ UNCHANGED <<config, spun, marked, status, status_view, local,
                   local_view, work_id, block_id, dep_idx, out, acc, rd,
                   order, stores>>

\* variant: wait polls the Status Store flag for every dependency
WaitPoll_GlobalOnly(g, t) ==
    /\ pc[g][t] = "wait_poll"
    /\ get_lane(t) = 0
    /\ IF status[Dependency(g, t)] # 0
       THEN /\ vis' = [vis EXCEPT ![g][t] =
                         @ \cup status_view[Dependency(g, t)]]
            /\ pc' = [pc EXCEPT ![g][t] = "wait_sync"]
            /\ UNCHANGED spun
       ELSE /\ spun' = [spun EXCEPT ![g][t] = @ \/ kernel = "peek"]
            /\ UNCHANGED <<vis, pc>>
    /\ UNCHANGED <<config, peeked, marked, status, status_view, local,
                   local_view, work_id, block_id, dep_idx, out, acc, rd,
                   order, stores>>

\* variant: the loop is left after one load, whatever it returned
WaitPoll_NoSpin(g, t) ==
    /\ pc[g][t] = "wait_poll"
    /\ get_lane(t) = 0
    /\ vis' = [vis EXCEPT ![g][t] = @ \cup FlagViewOf(g, t, Dependency(g, t))]
    /\ pc' = [pc EXCEPT ![g][t] = "wait_sync"]
    /\ UNCHANGED <<config, peeked, spun, marked, status, status_view, local, local_view, work_id,
                   block_id, dep_idx, out, acc, rd, order, stores>>

\* variant: wait takes the flag, it stores NotReady to the word it found set
WaitPoll_Consume(g, t) ==
    /\ pc[g][t] = "wait_poll"
    /\ get_lane(t) = 0
    /\ \E word \in FlagOf(g, t, Dependency(g, t)) :
         IF word # 0
         THEN /\ vis' = [vis EXCEPT ![g][t] =
                           @ \cup FlagViewOf(g, t, Dependency(g, t))]
              /\ pc' = [pc EXCEPT ![g][t] = "wait_sync"]
              /\ IF IsLocal(g, t, Dependency(g, t))
                 THEN /\ local' = [local EXCEPT
                                     ![g].status[DepLocal(Dependency(g, t))] = 0]
                      /\ UNCHANGED status
                 ELSE /\ status' = [status EXCEPT ![Dependency(g, t)] = 0]
                      /\ UNCHANGED local
              /\ UNCHANGED spun
         ELSE /\ spun' = [spun EXCEPT ![g][t] = @ \/ kernel = "peek"]
              /\ UNCHANGED <<vis, pc, status, local>>
    /\ UNCHANGED <<config, peeked, marked, status_view, local_view, work_id,
                   block_id, dep_idx, out, acc, rd, order, stores>>

\* variant: lane 0 polls the flag of the dependency the last lane passed
WaitPoll_LastLaneArgument(g, t) ==
    /\ pc[g][t] = "wait_poll"
    /\ get_lane(t) = 0
    /\ LET dependency == Dependency(g, t + subwarp_size - 1)
       IN \E word \in FlagOf(g, t, dependency) :
            IF word # 0
            THEN /\ vis' = [vis EXCEPT ![g][t] =
                              @ \cup FlagViewOf(g, t, dependency)]
                 /\ pc' = [pc EXCEPT ![g][t] = "wait_sync"]
                 /\ UNCHANGED spun
            ELSE /\ spun' = [spun EXCEPT ![g][t] = @ \/ kernel = "peek"]
                 /\ UNCHANGED <<vis, pc>>
    /\ UNCHANGED <<config, peeked, marked, status, status_view, local, local_view, work_id,
                   block_id, dep_idx, out, acc, rd, order, stores>>

\* wait: lane 0 polls the flag of its dependency with load_acquire(_shared);
\* it leaves the loop on a non-zero word and spins otherwise; the kernel
\* that counts the iterations of the loop notes the iteration
WaitPoll(g, t) ==
    /\ pc[g][t] = "wait_poll"
    /\ get_lane(t) = 0
    /\ \E word \in FlagOf(g, t, Dependency(g, t)) :
         IF word # 0
         THEN /\ vis' = [vis EXCEPT ![g][t] =
                           @ \cup FlagViewOf(g, t, Dependency(g, t))]
              /\ pc' = [pc EXCEPT ![g][t] = "wait_sync"]
              /\ UNCHANGED spun
         ELSE /\ spun' = [spun EXCEPT ![g][t] = @ \/ kernel = "peek"]
              /\ UNCHANGED <<vis, pc>>
    /\ UNCHANGED <<config, peeked, marked, status, status_view, local, local_view, work_id,
                   block_id, dep_idx, out, acc, rd, order, stores>>

\* wait: the lane-group's sync() releases its lanes, wait returns; the kernel
\* then reads the output of the dependency it waited for
WaitSync(g, s) ==
    /\ \A t \in SubwarpTids(s) : pc[g][t] = "wait_sync"
    /\ LET v == JoinViews(g, SubwarpTids(s))
       IN \E got \in [SubwarpTids(s) ->
                         UNION {ReadOutput(Dependency(g, t), v) :
                                   t \in SubwarpTids(s)}] :
            /\ \A t \in SubwarpTids(s) :
                 got[t] \in ReadOutput(Dependency(g, t), v)
            /\ vis' = [vis EXCEPT ![g] =
                         [t \in Tids |-> IF t \in SubwarpTids(s) THEN v ELSE @[t]]]
            /\ acc' = [acc EXCEPT ![g] =
                         [t \in Tids |->
                            IF t \in SubwarpTids(s)
                            THEN @[t] + got[t][UsedPart(t)] ELSE @[t]]]
            /\ rd' = [rd EXCEPT ![g] =
                        [t \in Tids |->
                           IF t \in SubwarpTids(s)
                           THEN Append(@[t], <<Dependency(g, t), got[t]>>)
                           ELSE @[t]]]
    /\ dep_idx' = [dep_idx EXCEPT ![g][s] = @ + 1]
    /\ pc' = [pc EXCEPT ![g] =
                [t \in Tids |->
                    IF t \in SubwarpTids(s)
                    THEN AfterWait(work_id[g][t], dep_idx[g][s] + 1, t)
                    ELSE @[t]]]
    /\ peeked' = [peeked EXCEPT ![g] =
                    [t \in Tids |->
                        IF t \in SubwarpTids(s) THEN "none" ELSE @[t]]]
    /\ spun' = [spun EXCEPT ![g] =
                  [t \in Tids |-> IF t \in SubwarpTids(s) THEN FALSE ELSE @[t]]]
    /\ UNCHANGED <<config, marked, status, status_view, local, local_view, work_id,
                   block_id, out, order, stores>>

\* the kernel writes the lane's part of the item's output, then calls
\* mark_ready and arrives at its sync()
WriteOutput(g, t) ==
    /\ pc[g][t] = "write"
    /\ out' = [out EXCEPT ![work_id[g][t]][get_lane(t)] = acc[g][t] + 1]
    /\ vis' = [vis EXCEPT ![g][t] = @ \cup {<<work_id[g][t], get_lane(t)>>}]
    /\ pc' = [pc EXCEPT ![g][t] = "mr_sync"]
    /\ UNCHANGED <<config, peeked, spun, marked, status, status_view, local, local_view, work_id,
                   block_id, dep_idx, acc, rd, order, stores>>

\* variant: no sync() at the start of mark_ready, lane 0 publishes at once
MarkReadySync_NoBarrier(g, s) ==
    /\ \E t \in SubwarpTids(s) :
         /\ pc[g][t] = "mr_sync"
         /\ pc' = [pc EXCEPT ![g][t] =
                     IF get_lane(t) = 0 THEN "mr_local" ELSE AfterMarkReady(g, t)]
         /\ marked' = IF get_lane(t) = 0 THEN marked ELSE Returned(g, {t})
    /\ UNCHANGED <<config, peeked, spun, status, status_view, local, local_view, work_id,
                   block_id, dep_idx, out, vis, acc, rd, order, stores>>

\* variant: every lane publishes, not lane 0 alone
MarkReadySync_EveryLane(g, s) ==
    /\ \A t \in SubwarpTids(s) : pc[g][t] = "mr_sync"
    /\ vis' = [vis EXCEPT ![g] =
                 [t \in Tids |->
                    IF t \in SubwarpTids(s)
                    THEN JoinViews(g, SubwarpTids(s)) ELSE @[t]]]
    /\ pc' = [pc EXCEPT ![g] =
                [t \in Tids |-> IF t \in SubwarpTids(s) THEN "mr_local" ELSE @[t]]]
    /\ UNCHANGED <<config, peeked, spun, marked, status, status_view, local, local_view, work_id,
                   block_id, dep_idx, out, acc, rd, order, stores>>

\* mark_ready: the lane-group's sync(); lane 0 goes on to publish
MarkReadySync(g, s) ==
    /\ \A t \in SubwarpTids(s) : pc[g][t] = "mr_sync"
    /\ vis' = [vis EXCEPT ![g] =
                 [t \in Tids |->
                    IF t \in SubwarpTids(s)
                    THEN JoinViews(g, SubwarpTids(s)) ELSE @[t]]]
    /\ pc' = [pc EXCEPT ![g] =
                [t \in Tids |->
                    IF t \in SubwarpTids(s)
                    THEN IF get_lane(t) = 0
                         THEN "mr_local" ELSE AfterMarkReady(g, t)
                    ELSE @[t]]]
    /\ marked' = Returned(g, {t \in SubwarpTids(s) : get_lane(t) # 0})
    /\ UNCHANGED <<config, peeked, spun, status, status_view, local, local_view, work_id,
                   block_id, dep_idx, out, acc, rd, order, stores>>

\* variant: the store to the shared slot is left out
MarkReadyLocal_Omitted(g, t) ==
    /\ pc[g][t] = "mr_local"
    /\ pc' = [pc EXCEPT ![g][t] = "mr_global"]
    /\ UNCHANGED <<config, peeked, spun, marked, status, status_view, local, local_view, work_id,
                   block_id, dep_idx, out, vis, acc, rd, order, stores>>

\* variant: the store to the shared slot carries no release ordering
MarkReadyLocal_Relaxed(g, t) ==
    /\ pc[g][t] = "mr_local"
    /\ LET sh_id == work_id[g][t] % (block_size \div subwarp_size)
       IN local' = [local EXCEPT ![g].status[sh_id] = 1]
    /\ pc' = [pc EXCEPT ![g][t] = "mr_global"]
    /\ UNCHANGED <<config, peeked, spun, marked, status, status_view,
                   local_view, work_id, block_id, dep_idx, out, vis, acc, rd,
                   order, stores>>

\* variant: the slot is computed from threadIdx.x, not from the work id
MarkReadyLocal_ByThread(g, t) ==
    /\ pc[g][t] = "mr_local"
    /\ LET sh_id == t % (block_size \div subwarp_size)
       IN /\ local' = [local EXCEPT ![g].status[sh_id] = 1]
          /\ local_view' = [local_view EXCEPT ![g][sh_id] = vis[g][t]]
    /\ pc' = [pc EXCEPT ![g][t] = "mr_global"]
    /\ UNCHANGED <<config, peeked, spun, marked, status, status_view,
                   work_id, block_id, dep_idx, out, vis, acc, rd, order,
                   stores>>

\* variant: the first store goes to the Status Store flag, not to the
\* shared slot
MarkReadyLocal_GlobalFirst(g, t) ==
    /\ pc[g][t] = "mr_local"
    /\ status' = [status EXCEPT ![work_id[g][t]] = 1]
    /\ status_view' = [status_view EXCEPT ![work_id[g][t]] = vis[g][t]]
    /\ pc' = [pc EXCEPT ![g][t] = "mr_global"]
    /\ UNCHANGED <<config, peeked, spun, marked, local, local_view, work_id,
                   block_id, dep_idx, out, vis, acc, rd, order, stores>>

\* store_release_shared(local.status + sh_id, 1)
MarkReadyLocal(g, t) ==
    /\ pc[g][t] = "mr_local"
    /\ LET sh_id == work_id[g][t] % (block_size \div subwarp_size)
       IN /\ local' = [local EXCEPT ![g].status[sh_id] = 1]
          /\ local_view' = [local_view EXCEPT ![g][sh_id] = vis[g][t]]
    /\ pc' = [pc EXCEPT ![g][t] = "mr_global"]
    /\ UNCHANGED <<config, peeked, spun, marked, status, status_view, work_id, block_id, dep_idx,
                   out, vis, acc, rd, order, stores>>

\* variant: the flag is incremented, not set
MarkReadyGlobal_Increment(g, t) ==
    /\ pc[g][t] = "mr_global"
    /\ status' = [status EXCEPT ![work_id[g][t]] = @ + 1]
    /\ status_view' = [status_view EXCEPT ![work_id[g][t]] = vis[g][t]]
    /\ stores' = [stores EXCEPT ![work_id[g][t]] = Append(@, <<g, t>>)]
    /\ pc' = [pc EXCEPT ![g][t] = AfterMarkReady(g, t)]
    /\ marked' = Returned(g, {t})
    /\ UNCHANGED <<config, peeked, spun, local, local_view, work_id,
                   block_id, dep_idx, out, vis, acc, rd, order>>

\* variant: the global store carries no release ordering
MarkReadyGlobal_Relaxed(g, t) ==
    /\ pc[g][t] = "mr_global"
    /\ status' = [status EXCEPT ![work_id[g][t]] = 1]
    /\ stores' = [stores EXCEPT ![work_id[g][t]] = Append(@, <<g, t>>)]
    /\ pc' = [pc EXCEPT ![g][t] = AfterMarkReady(g, t)]
    /\ marked' = Returned(g, {t})
    /\ UNCHANGED <<config, peeked, spun, status_view, local, local_view, work_id, block_id,
                   dep_idx, out, vis, acc, rd, order>>

\* variant: mark_ready publishes in item order, it holds its global store
\* back until the flag of the item before is Ready
MarkReadyGlobal_InOrder(g, t) ==
    /\ pc[g][t] = "mr_global"
    /\ IF work_id[g][t] = 0 THEN TRUE ELSE status[work_id[g][t] - 1] = Ready
    /\ status' = [status EXCEPT ![work_id[g][t]] = 1]
    /\ status_view' = [status_view EXCEPT ![work_id[g][t]] = vis[g][t]]
    /\ stores' = [stores EXCEPT ![work_id[g][t]] = Append(@, <<g, t>>)]
    /\ pc' = [pc EXCEPT ![g][t] = AfterMarkReady(g, t)]
    /\ marked' = Returned(g, {t})
    /\ UNCHANGED <<config, peeked, spun, local, local_view, work_id, block_id, dep_idx,
                   out, vis, acc, rd, order>>

\* variant: the store to the Status Store flag is left out
MarkReadyGlobal_Omitted(g, t) ==
    /\ pc[g][t] = "mr_global"
    /\ pc' = [pc EXCEPT ![g][t] = AfterMarkReady(g, t)]
    /\ marked' = Returned(g, {t})
    /\ UNCHANGED <<config, peeked, spun, status, status_view, stores, local,
                   local_view, work_id, block_id, dep_idx, out, vis, acc, rd,
                   order>>

\* store_release(global.status + get_work_id(), 1)
MarkReadyGlobal(g, t) ==
    /\ pc[g][t] = "mr_global"
    /\ status' = [status EXCEPT ![work_id[g][t]] = 1]
    /\ status_view' = [status_view EXCEPT ![work_id[g][t]] = vis[g][t]]
    /\ stores' = [stores EXCEPT ![work_id[g][t]] = Append(@, <<g, t>>)]
    /\ pc' = [pc EXCEPT ![g][t] = AfterMarkReady(g, t)]
    /\ marked' = Returned(g, {t})
    /\ UNCHANGED <<config, peeked, spun, local, local_view, work_id, block_id, dep_idx,
                   out, vis, acc, rd, order>>

Next ==
    \/ \E g \in Groups : Launch(g)
    \/ \E g \in Groups, t \in Tids : Constructor(g, t)
    \/ \E g \in Groups : CtorSync(g)
    \/ \E g \in Groups, t \in Tids : WaitPoll(g, t)
    \/ \E g \in Groups, s \in Slots : WaitSync(g, s)
    \/ \E g \in Groups, t \in Tids : WriteOutput(g, t)
    \/ \E g \in Groups, s \in Slots : MarkReadySync(g, s)
    \/ \E g \in Groups, t \in Tids : MarkReadyLocal(g, t)
    \/ \E g \in Groups, t \in Tids : MarkReadyGlobal(g, t)

Spec == Init /\ [][Next]_vars

\* the host constructs the storage over whatever array it was given, then
\* launches the kernel
StorageInit ==
    /\ \E sh \in Shapes : InitShape(sh)
    /\ deps \in ContractGraphs(num_elements)
    /\ kernel = "contract"
    /\ status \in PriorArrays(num_elements)
    /\ status_view = [i \in 0 .. num_elements |-> {}]
    /\ stores = [i \in 0 .. num_elements |-> <<>>]
    /\ has_storage = FALSE
    /\ InitThreads

StorageNext == Storage \/ Next

\* the launches of Spec running the kernel that calls peek(d) before every
\* wait(d) and counts the iterations of wait's loop
PeekInit ==
    /\ \E sh \in Shapes : InitShape(sh)
    /\ deps \in ContractGraphs(num_elements)
    /\ kernel = "peek"
    /\ InitStore
    /\ InitThreads

PeekNext ==
    \/ \E g \in Groups, t \in Tids : Peek(g, t)
    \/ Next

PeekSpec == PeekInit /\ [][PeekNext]_vars

\* the launches of Spec running the kernel that calls mark_ready twice for
\* its work item
TwiceInit ==
    /\ \E sh \in Shapes : InitShape(sh)
    /\ deps \in ContractGraphs(num_elements)
    /\ kernel = "twice"
    /\ InitStore
    /\ InitThreads

TwiceSpec == TwiceInit /\ [][Next]_vars

\* the sequential chain: item i waits for item i - 1 and writes the
\* output of item i - 1 plus one, item 0 writes 1
ChainItems == 8

\* the instantiations run on the chain: two-lane lane-groups, two, four and
\* eight of them per block (on four, two and one block), and one-lane
\* lane-groups, four and eight per block
ChainInstantiations ==
    {<<4, 1>>, <<8, 1>>, <<4, 2>>, <<8, 2>>, <<16, 2>>}

ChainInit ==
    /\ \E inst \in ChainInstantiations :
          InitShape([groups |-> ChainItems \div (inst[1] \div inst[2]),
                     inst |-> inst,
                     resident |-> ChainItems \div (inst[1] \div inst[2])])
    /\ num_elements = ChainItems
    /\ deps = Chain(ChainItems)
    /\ kernel = "contract"
    /\ InitStore
    /\ InitThreads

\* the instantiations run on the diamond: one, two and four lane-groups per
\* block, of one and of two lanes
DiamondInstantiations == {<<1, 1>>, <<2, 1>>, <<4, 1>>, <<4, 2>>, <<8, 2>>}

\* the diamond on as many blocks as its four items need, all of them or one
\* at a time resident
DiamondInit ==
    /\ \E inst \in DiamondInstantiations, all \in BOOLEAN :
          LET blocks == Cardinality(DOMAIN Diamond) \div (inst[1] \div inst[2])
          IN InitShape([groups |-> blocks,
                        inst |-> inst,
                        resident |-> IF all THEN blocks ELSE 1])
    /\ deps = Diamond
    /\ kernel = "contract"
    /\ InitStore
    /\ InitThreads

DiamondSpec == DiamondInit /\ [][Next]_vars

\* the device keeps running: while some thread can move, one does
ChainSpec == ChainInit /\ [][Next]_vars /\ WF_vars(Next)

StorageSpec == StorageInit /\ [][StorageNext]_vars

\* ------------------------------------------------------------- scheduling
\* the steps of thread t of block g, and the barriers of its block
ThreadStep(g, t) ==
    /\ g \in Groups
    /\ t \in Tids
    /\ \/ Constructor(g, t)
       \/ WaitPoll(g, t)
       \/ WriteOutput(g, t)
       \/ MarkReadyLocal(g, t)
       \/ MarkReadyGlobal(g, t)

BarrierStep(g, s) ==
    /\ g \in Groups
    /\ s \in Slots
    /\ \/ CtorSync(g)
       \/ WaitSync(g, s)
       \/ MarkReadySync(g, s)

LaunchStep(g) == g \in Groups /\ Launch(g)

\* the largest block of the instantiations
MaxBlockSize == CHOOSE n \in {i[1] : i \in Instantiations} :
                    \A i \in Instantiations : i[1] <= n

\* the device runs every resident thread that can move, completes a barrier
\* all of whose threads have arrived, and starts a pending block when a
\* slot is free
Fairness ==
    /\ \A g \in 0 .. MaxGroups - 1 :
          /\ WF_vars(LaunchStep(g))
          /\ \A t \in 0 .. MaxBlockSize - 1 :
                /\ WF_vars(ThreadStep(g, t))
                /\ WF_vars(BarrierStep(g, t))

\* launches in which every block can be resident at once, with every
\* dependency relation of the consumer contract
ContractInit ==
    /\ \E sh \in Shapes : sh.resident = sh.groups /\ InitShape(sh)
    /\ deps \in AllRelations(num_elements)
    /\ kernel = "contract"
    /\ InitStore
    /\ InitThreads

ContractSpec == ContractInit /\ [][Next]_vars /\ Fairness

\* launches in which fewer blocks can be resident than are launched
OccupancyInit ==
    /\ \E sh \in Shapes : sh.resident < sh.groups /\ InitShape(sh)
    /\ deps \in AllRelations(num_elements)
    /\ kernel = "contract"
    /\ InitStore
    /\ InitThreads

OccupancySpec == OccupancyInit /\ [][Next]_vars /\ Fairness


\* ------------------------------------------------------------ properties
\* thread 0 of block g has executed its atomic_add
Claimed(g) == pc[g][0] \notin {"pending", "ctor"}

\* every thread of block g has left the constructor
Constructed(g) == \A t \in Tids : pc[g][t] \notin {"pending", "ctor", "ctor_sync"}

\* the work ids the block's base offset gives its threads
ClaimedRange(g) == {WorkIdOf(local[g].block_offset, t) : t \in Tids}

SetMin(S) == CHOOSE x \in S : \A y \in S : x <= y
SetMax(S) == CHOOSE x \in S : \A y \in S : y <= x

\* the word wait/peek of thread (g, t) select for the dependency
PolledWord(g, t, dependency) ==
    IF IsLocal(g, t, dependency)
    THEN local[g].status[DepLocal(dependency)]
    ELSE status[dependency]

\* C1: every read of a dependency's output made after wait(d) returned
\* yields what the producer wrote before mark_ready, never the value the
\* cell held before the write, for producers of the same and of other blocks
C1_WaitMakesWritesVisible ==
    \A g \in Groups, t \in Tids :
        \A k \in 1 .. Len(rd[g][t]) :
            \A l \in Lanes :
                /\ rd[g][t][k][2][l] # 0
                /\ rd[g][t][k][2][l] = out[rd[g][t][k][1]][l]

C1_Witness ==
    \E g \in Groups, t \in Tids :
        /\ subwarp_size = 2
        /\ Constructed(g)
        /\ \E k \in 1 .. Len(rd[g][t]) : ~IsLocal(g, t, rd[g][t][k][1])
        /\ \E k \in 1 .. Len(rd[g][t]) : IsLocal(g, t, rd[g][t][k][1])

\* C2: a lane has returned from wait(d) only if the flag polled for d, the
\* shared slot of a local and the global flag of a global dependency, is
\* Ready; lane 0 stands behind its loop only with that flag Ready
C2_NoReturnWhileNotReady ==
    \A g \in Groups, t \in Tids :
        /\ \A k \in 1 .. Len(rd[g][t]) :
               PolledWord(g, t, rd[g][t][k][1]) = Ready
        /\ (pc[g][t] = "wait_sync" /\ get_lane(t) = 0)
               => PolledWord(g, t, Dependency(g, t)) = Ready

C2_Witness ==
    /\ subwarp_size = 2
    /\ \E g \in Groups, t \in Tids :
          /\ get_lane(t) # 0
          /\ Len(rd[g][t]) > 0
          /\ IsLocal(g, t, rd[g][t][1][1])
    /\ \E g \in Groups, t \in Tids :
          /\ get_lane(t) # 0
          /\ Len(rd[g][t]) > 0
          /\ ~IsLocal(g, t, rd[g][t][1][1])

\* C3: once every block has claimed, the ranges taken in claim order tile
\* [0, N): each is a run of consecutive ids, the first starts at 0, each
\* next one starts right after the one before, the last ends at N - 1
C3_ClaimedRangesTile ==
    (\A g \in Groups : Claimed(g)) =>
        /\ Len(order) = num_groups
        /\ \A k \in 1 .. num_groups :
              ClaimedRange(order[k]) =
                  SetMin(ClaimedRange(order[k])) .. SetMax(ClaimedRange(order[k]))
        /\ SetMin(ClaimedRange(order[1])) = 0
        /\ \A k \in 1 .. num_groups - 1 :
              SetMin(ClaimedRange(order[k + 1])) =
                  SetMax(ClaimedRange(order[k])) + 1
        /\ SetMax(ClaimedRange(order[num_groups])) = num_elements - 1

C3_Witness ==
    /\ num_groups = 2
    /\ subwarp_size = 2
    /\ local_dependency_count = 2
    /\ \A g \in Groups : Claimed(g)
    /\ order = <<1, 0>>

C5_RangesInStartOrder ==
    \A k \in 1 .. Len(order) :
        /\ local[order[k]].block_offset = (k - 1) * block_size
        /\ SetMin(ClaimedRange(order[k])) = (k - 1) * local_dependency_count
        /\ \A j \in 1 .. k - 1 :
              SetMax(ClaimedRange(order[j])) < SetMin(ClaimedRange(order[k]))

C5_Witness ==
    /\ Len(order) = 2
    /\ order[1] = 1
    /\ local_dependency_count = 2
    /\ pc[0][0] = "ctor_sync"

\* C8: a Ready flag stays Ready: no step takes a Status Store flag, or a
\* shared slot of a block that has been launched, from Ready to another value
C8_FlagsMonotonic ==
    [][/\ \A i \in Items : status[i] = Ready => status'[i] = Ready
       /\ \A g \in Groups, j \in Slots :
             local[g].status[j] = Ready => local'[g].status[j] = Ready]_vars

C8_Witness ==
    /\ \E i \in Items : status[i] = Ready /\ \E j \in Items : status[j] = NotReady
    /\ \E g \in Groups :
          /\ \E t \in Tids : pc[g][t] \in {"wait_poll", "write"}
          /\ \E j \in Slots : local[g].status[j] = Ready

\* the lane-group that owns item w: the threads whose get_work_id() is w
Owners(w) == {gt \in Groups \X Tids : work_id[gt[1]][gt[2]] = w}

\* C9: every store to Status Store flag w is made by lane 0 of the lane-group
\* whose work id is w, at most one store is made to it, and once that
\* lane-group has completed mark_ready exactly one has been made
C9_OnlyOwnerPublishesOnce ==
    \A w \in Items :
        /\ Len(stores[w]) <= 1
        /\ \A k \in 1 .. Len(stores[w]) :
              /\ stores[w][k] \in Owners(w)
              /\ get_lane(stores[w][k][2]) = 0
        /\ (Len(stores[w]) = 0) = (status[w] = NotReady)
        /\ (Owners(w) # {} /\ \A gt \in Owners(w) : pc[gt[1]][gt[2]] = "done")
              => Len(stores[w]) = 1

C9_Witness ==
    /\ subwarp_size = 2
    /\ num_groups = 2
    /\ \A w \in Items : Len(stores[w]) = 1
    /\ \A g \in Groups : Exited(g)

\* C10: when the shared slot or the Status Store flag of item w is Ready,
\* every lane of the owning lane-group is past the sync() at the start of
\* mark_ready and has written its part of the output of w
C10_NoFlagBeforeAllLanesArrive ==
    \A g \in Groups, t \in Tids :
        (/\ Constructed(g)
         /\ \/ status[work_id[g][t]] = Ready
            \/ local[g].status[SubwarpOf(t)] = Ready)
            => /\ pc[g][t] \in {"mr_local", "mr_global", "done"}
               /\ out[work_id[g][t]][get_lane(t)] # 0

C10_Witness ==
    \E g \in Groups, t \in Tids :
        /\ subwarp_size = 2
        /\ get_lane(t) # 0
        /\ pc[g][t] = "done"
        /\ local[g].status[SubwarpOf(t)] = Ready
        /\ status[work_id[g][t]] = NotReady

\* lane 0 of the lane-group of thread (g, t) spins in wait: the flag it
\* polls is NotReady
Spinning(g, t) ==
    LET t0 == SubwarpOf(t) * subwarp_size
    IN /\ pc[g][t0] = "wait_poll"
       /\ PolledWord(g, t0, Dependency(g, t0)) = NotReady

\* thread (g, t) is blocked in wait: it spins, or it stands at the sync() of
\* wait while lane 0 of its lane-group spins
BlockedInWait(g, t) ==
    /\ pc[g][t] \in {"wait_poll", "wait_sync"}
    /\ Spinning(g, t)

\* every thread of block g that has not finished is blocked in wait
GroupBlocked(g) ==
    /\ Resident(g)
    /\ \A t \in Tids : pc[g][t] = "done" \/ BlockedInWait(g, t)

AllReady == \A i \in Items : status[i] = Ready

AllDone == \A g \in Groups : Exited(g)

\* C6: with fewer slots than blocks, in no reachable state are all resident
\* blocks blocked in wait, and every flag eventually becomes Ready
C6_NoDeadlockUnderLimitedOccupancy ==
    /\ []((\E g \in Groups : Resident(g)) =>
             (\E g \in Groups : Resident(g) /\ ~GroupBlocked(g)))
    /\ <>AllReady

C6_Witness ==
    /\ max_resident < num_groups
    /\ \E g \in Groups :
          /\ Resident(g)
          /\ \E t \in Tids : BlockedInWait(g, t)
          /\ \E h \in Groups : \A t \in Tids : pc[h][t] = "pending"

\* C7: under the consumer contract and weak fairness every wait returns,
\* every lane-group completes mark_ready and every flag becomes Ready
C7_ContractTerminates ==
    <>[](/\ AllDone
         /\ AllReady
         /\ \A g \in Groups, t \in Tids :
               Len(rd[g][t]) = Len(deps[work_id[g][t]]))

C7_Witness ==
    /\ num_groups = 2
    /\ subwarp_size = 2
    /\ \E g \in Groups, t \in Tids : BlockedInWait(g, t)
    /\ \E g \in Groups, t \in Tids :
          Len(rd[g][t]) > 0 /\ ~IsLocal(g, t, rd[g][t][1][1])

\* no block of the kernel has been launched
NothingLaunched == \A g \in Groups, t \in Tids : pc[g][t] = "pending"

\* C11: once syncfree_storage is constructed for N items the status array
\* has N + 1 words, all zero, whatever array the caller handed in: flags
\* 0 .. N - 1 are NotReady and the counter, the word at index N, is 0
C11_StorageZeroFilled ==
    (has_storage /\ NothingLaunched) =>
        /\ DOMAIN status = 0 .. num_elements
        /\ \A i \in Items : status[i] = NotReady
        /\ status[num_elements] = 0

\* the constructor has run on the array handed in, for a launch of two
\* blocks that has not started
C11_Witness ==
    /\ has_storage
    /\ NothingLaunched
    /\ num_groups = 2

\* the lane-groups of the launch: block and lane-group index within it
LaneGroups == Groups \X Slots

\* C12: the block whose atomic_add returned c (the (c + 1)-th in claim
\* order) gives thread t the work id c * capacity + floor(t / subwarp_size);
\* the lanes of one lane-group hold the same id, and two different
\* lane-groups of the launch never hold the same id
C12_WorkIdIsBasePlusLaneGroup ==
    /\ \A k \in 1 .. Len(order) :
          Constructed(order[k]) =>
              \A t \in Tids :
                  work_id[order[k]][t] =
                      (k - 1) * local_dependency_count + t \div subwarp_size
    /\ \A g \in Groups, t \in Tids, u \in Tids :
          (Constructed(g) /\ SubwarpOf(t) = SubwarpOf(u))
              => work_id[g][t] = work_id[g][u]
    /\ \A a \in LaneGroups, b \in LaneGroups :
          (a # b /\ Constructed(a[1]) /\ Constructed(b[1]))
              => \A t \in SubwarpTids(a[2]), u \in SubwarpTids(b[2]) :
                    work_id[a[1]][t] # work_id[b[1]][u]

C12_Witness ==
    /\ num_groups = 2
    /\ subwarp_size = 2
    /\ local_dependency_count = 2
    /\ order = <<1, 0>>
    /\ \A g \in Groups : Constructed(g)
    /\ work_id[0][3] = 3

\* the value the atomic_add of block g returned, as kept in block_offset
CounterValueOf(g) == local[g].block_offset \div block_size

\* C13: the counter equals the number of blocks whose thread 0 has executed
\* its atomic_add, no two blocks obtained the same value, and once every
\* block is constructed the counter equals the number of blocks
C13_CounterCountsBlocks ==
    /\ status[num_elements] = Cardinality({g \in Groups : Claimed(g)})
    /\ \A g \in Groups, h \in Groups :
          (Claimed(g) /\ Claimed(h) /\ g # h)
              => CounterValueOf(g) # CounterValueOf(h)
    /\ \A g \in Groups :
          Claimed(g) => CounterValueOf(g) \in 0 .. status[num_elements] - 1
    /\ (\A g \in Groups : Constructed(g)) => status[num_elements] = num_groups

C13_Witness ==
    /\ num_groups = 2
    /\ status[num_elements] = 2
    /\ CounterValueOf(1) = 0
    /\ \A g \in Groups : Constructed(g)
    /\ \E g \in Groups, t \in Tids : pc[g][t] = "wait_poll"

\* some thread of block g has left the constructor
InUse(g) == \E t \in Tids : pc[g][t] \notin {"pending", "ctor", "ctor_sync"}

\* C14: when the threads of a block leave the constructor every shared slot
\* of the block is NotReady; once a thread has left it no thread of the block
\* is still before the barrier, a slot is Ready only by the local store of
\* its owner, and a slot is set to NotReady only while every thread of the
\* block is in the constructor
C14_LocalCacheResetBeforeUse ==
    /\ [](\A g \in Groups :
            InUse(g) =>
                /\ \A t \in Tids : pc[g][t] \notin {"pending", "ctor"}
                /\ \A j \in Slots :
                      /\ local[g].status[j] \in {NotReady, Ready}
                      /\ local[g].status[j] = Ready =>
                             pc[g][j * subwarp_size] \in {"mr_global", "done"})
    /\ [][\A g \in Groups :
             (~InUse(g) /\ InUse(g)') =>
                 \A j \in Slots : local'[g].status[j] = NotReady]_vars
    /\ [][\A g \in Groups, j \in Slots :
             (local[g].status[j] # NotReady /\ local'[g].status[j] = NotReady)
                 => \A t \in Tids : pc[g][t] \in {"ctor", "ctor_sync"}]_vars

C14_Witness ==
    \E g \in Groups :
        /\ local_dependency_count = 2
        /\ InUse(g)
        /\ local[g].status[0] = Ready
        /\ local[g].status[1] = NotReady
        /\ \E t \in Tids : pc[g][t] = "wait_poll"

\* item d is owned by block g: a lane-group of g holds d as its work id
OwnedBy(g, d) == \E u \in Tids : work_id[g][u] = d

\* the word that belongs to dependency d for a caller of block g by
\* ownership: the caller's shared slot d mod capacity for an item of its own
\* block, Status Store flag d for any other
OwnWord(g, d) ==
    IF OwnedBy(g, d)
    THEN local[g].status[d % local_dependency_count]
    ELSE status[d]

\* C15: wait and peek take d for local exactly when item d is owned by the
\* caller's block, that is when floor(d / capacity) is the counter value of
\* the block; the loop of wait is left, and peek returns true, exactly when
\* the caller's shared slot d mod capacity is Ready for a local d and when
\* Status Store flag d is Ready for a global d
C15_ClassifiesByOwnership ==
    \A g \in Groups, t \in Tids :
        Constructed(g) =>
            /\ \A d \in Items :
                  /\ IsLocal(g, t, d) = OwnedBy(g, d)
                  /\ IsLocal(g, t, d) =
                         (d \div local_dependency_count = CounterValueOf(g))
            /\ pc[g][t] = "wait_poll" =>
                  (ENABLED (WaitPoll(g, t) /\ pc'[g][t] = "wait_sync"))
                      = (OwnWord(g, Dependency(g, t)) = Ready)
            /\ pc[g][t] = "peek" =>
                  /\ (ENABLED (Peek(g, t) /\ peeked'[g][t] = "true"))
                         = (OwnWord(g, Dependency(g, t)) = Ready)
                  /\ (ENABLED (Peek(g, t) /\ peeked'[g][t] = "false"))
                         = (OwnWord(g, Dependency(g, t)) = NotReady)

\* a lane 0 polls a local dependency whose shared slot is Ready while its
\* Status Store flag is not, and a thread of a two-lane lane-group peeks at
\* a global dependency
C15_Witness ==
    /\ \E g \in Groups, t \in Tids :
          /\ pc[g][t] = "wait_poll"
          /\ OwnedBy(g, Dependency(g, t))
          /\ local[g].status[DepLocal(Dependency(g, t))] = Ready
          /\ status[Dependency(g, t)] = NotReady
    /\ \E g \in Groups, t \in Tids :
          /\ pc[g][t] = "peek"
          /\ ~OwnedBy(g, Dependency(g, t))
          /\ subwarp_size = 2

\* lane 0 of the lane-group that owns item d has executed the store of
\* mark_ready that a caller of block g reads for d
Published(g, d) ==
    IF OwnedBy(g, d)
    THEN \E u \in Tids :
            /\ work_id[g][u] = d
            /\ get_lane(u) = 0
            /\ pc[g][u] \in {"mr_global", "done"}
    ELSE Len(stores[d]) >= 1

\* C16: peek never blocks: a thread at peek can always complete it, with
\* either result; the step is one load that changes nothing but the caller's
\* own position, with no other thread taking part, and returns the value the
\* selected flag holds; it returns true only when the owner of d has
\* executed the publishing store to that flag
C16_PeekIsNonBlockingProbe ==
    /\ [](\A g \in Groups, t \in Tids :
            /\ pc[g][t] = "peek" =>
                  ENABLED (Peek(g, t) /\ pc'[g][t] # "peek")
            /\ peeked[g][t] = "true" => Published(g, Dependency(g, t)))
    /\ [][\A g \in Groups, t \in Tids :
             (pc[g][t] = "peek" /\ pc'[g][t] # "peek") =>
                 /\ pc'[g][t] = WaitEntry(t)
                 /\ \A h \in Groups, u \in Tids :
                       <<h, u>> # <<g, t>> => pc'[h][u] = pc[h][u]
                 /\ peeked'[g][t] =
                       IF PolledWord(g, t, Dependency(g, t)) = Ready
                       THEN "true" ELSE "false"
                 /\ UNCHANGED <<status, local, out, dep_idx>>]_vars

\* one lane has peeked false at a dependency that is still NotReady and
\* gone on, another has peeked true
C16_Witness ==
    /\ \E g \in Groups, t \in Tids :
          /\ peeked[g][t] = "false"
          /\ pc[g][t] \in {"wait_poll", "wait_sync"}
          /\ PolledWord(g, t, Dependency(g, t)) = NotReady
    /\ \E g \in Groups, t \in Tids : peeked[g][t] = "true"

\* C17: a thread whose peek(d) returned true spins in no iteration of the
\* wait(d) it calls next: while lane 0 is in the loop the flag it polls is
\* Ready, and the counted iterations that read a zero word stay at none
C17_PeekImpliesWait ==
    \A g \in Groups, t \in Tids :
        peeked[g][t] = "true" =>
            /\ ~spun[g][t]
            /\ pc[g][t] = "wait_poll" =>
                  /\ PolledWord(g, t, Dependency(g, t)) = Ready
                  /\ ENABLED (WaitPoll(g, t) /\ pc'[g][t] = "wait_sync")
                  /\ ~ENABLED (WaitPoll(g, t) /\ spun'[g][t])

\* a lane 0 that peeked true has left the loop of its wait, another lane 0
\* that peeked false has spun
C17_Witness ==
    /\ \E g \in Groups, t \in Tids :
          /\ peeked[g][t] = "true"
          /\ get_lane(t) = 0
          /\ pc[g][t] = "wait_sync"
    /\ \E g \in Groups, t \in Tids :
          /\ peeked[g][t] = "false"
          /\ spun[g][t]

\* thread (g, t) is in mark_ready
InMarkReady(g, t) == pc[g][t] \in {"mr_sync", "mr_local", "mr_global"}

\* C18: no step a thread takes in its second mark_ready call changes a
\* Status Store flag, the counter, a shared slot or an output: the second
\* call leaves them as the first left them; when all threads are done every
\* flag and every slot is Ready, as after single calls, and the counter is
\* the number of blocks
C18_SecondMarkReadyChangesNothing ==
    /\ [][\A g \in Groups, t \in Tids :
             (/\ InMarkReady(g, t)
              /\ marked[g][t] >= 1
              /\ <<pc[g][t], marked[g][t]>>' # <<pc[g][t], marked[g][t]>>)
                 => UNCHANGED <<status, local, out>>]_vars
    /\ [](AllDone =>
            /\ \A i \in Items : status[i] = Ready
            /\ status[num_elements] = num_groups
            /\ \A g \in Groups, j \in Slots : local[g].status[j] = Ready
            /\ \A g \in Groups, t \in Tids : marked[g][t] = 2)

\* lane 0 of a two-lane lane-group has stored its flag a second time while
\* another lane-group is still waiting
C18_Witness ==
    /\ subwarp_size = 2
    /\ \E w \in Items : Len(stores[w]) = 2
    /\ \E g \in Groups, t \in Tids : pc[g][t] = "wait_poll"

\* the output of the chain computed item by item: 1, 2, ..., 8
ChainOutput == [w \in 0 .. ChainItems - 1 |-> w + 1]

\* C19: every run of the chain of 8 items ends, for every capacity checked
\* and every order in which the blocks claim, with every thread done, every
\* part of the output of item i equal to i + 1 and every flag Ready
C19_ChainCompletes ==
    <>[](/\ AllDone
         /\ AllReady
         /\ \A w \in Items, l \in Lanes : out[w][l] = ChainOutput[w])

\* four blocks of two two-lane lane-groups have completed the chain, and
\* physical block 0 was not the first to claim
C19_Witness ==
    /\ num_elements = ChainItems
    /\ num_groups = 4
    /\ subwarp_size = 2
    /\ AllDone
    /\ order[1] # 0
    /\ \A l \in Lanes : out[7][l] = 8

\* every lane of the owner of item d has written its part of the output,
\* which is the value of the sequential computation, and is past the
\* sync() of mark_ready
Final(d) ==
    /\ \A l \in Lanes : out[d][l] = Sequential(deps, d)
    /\ \A gt \in Owners(d) :
          pc[gt[1]][gt[2]] \in {"mr_local", "mr_global", "done"}

Results ==
    [out |-> [w \in Items |-> {out[w][l] : l \in Lanes}],
     flags |-> [w \in Items |-> status[w]],
     capacity |-> local_dependency_count]

\* the host, after the kernel has completed, invokes it again on the same
\* items, the same graph and the same status array, as instantiation inst on
\* groups blocks into a zeroed output; with reinit, syncfree_storage is
\* constructed again before the launch
Reinvoke(inst, groups, resident, reinit) ==
    /\ invocation = "first"
    /\ AllDone
    /\ block_size' = inst[1]
    /\ subwarp_size' = inst[2]
    /\ num_groups' = groups
    /\ max_resident' = resident
    /\ invocation' = IF reinit THEN "reinit" ELSE "reuse"
    /\ prior' = Results
    /\ has_storage' = ~reinit
    /\ status_view' = [i \in 0 .. num_elements |-> {}]
    /\ stores' = [i \in 0 .. num_elements |-> <<>>]
    /\ LET G == 0 .. groups - 1
           T == 0 .. inst[1] - 1
           S == 0 .. (inst[1] \div inst[2]) - 1
       IN /\ local' = [g \in G |->
                         [status |-> [i \in S |-> NotReady], block_offset |-> 0]]
          /\ local_view' = [g \in G |-> [i \in S |-> {}]]
          /\ work_id' = [g \in G |-> [t \in T |-> -1]]
          /\ block_id' = [g \in G |-> [t \in T |-> -1]]
          /\ pc' = [g \in G |-> [t \in T |-> "pending"]]
          /\ dep_idx' = [g \in G |-> [s \in S |-> 1]]
          /\ out' = [w \in Items |-> [l \in 0 .. inst[2] - 1 |-> 0]]
          /\ vis' = [g \in G |-> [t \in T |-> {}]]
          /\ acc' = [g \in G |-> [t \in T |-> 0]]
          /\ rd' = [g \in G |-> [t \in T |-> <<>>]]
          /\ peeked' = [g \in G |-> [t \in T |-> "none"]]
          /\ spun' = [g \in G |-> [t \in T |-> FALSE]]
          /\ marked' = [g \in G |-> [t \in T |-> 0]]
    /\ order' = <<>>
    /\ UNCHANGED <<index_bits, num_elements, deps, kernel, omits, lane_deps,
                   status>>

\* the graphs run under two capacities: the diamond and the graphs of Spec
\* over as many items
EquivGraphs == {Diamond} \cup ContractGraphs(Cardinality(DOMAIN Diamond))

\* the blocks an instantiation needs for the items
BlocksFor(inst) == num_elements \div (inst[1] \div inst[2])

\* the first run: one block holds every item, every dependency is local
EquivInit ==
    /\ \E inst \in DiamondInstantiations :
          /\ inst[1] \div inst[2] = Cardinality(DOMAIN Diamond)
          /\ InitShape([groups |-> 1, inst |-> inst, resident |-> 1])
    /\ deps \in EquivGraphs
    /\ kernel = "contract"
    /\ InitStore
    /\ InitThreads

\* the second run: any of the instantiations, on a storage constructed again
EquivNext ==
    \/ \E inst \in DiamondInstantiations :
          Reinvoke(inst, BlocksFor(inst), BlocksFor(inst), TRUE)
    \/ Storage
    \/ Next

EquivSpec == EquivInit /\ [][EquivNext]_vars

\* C21: a graph run once under a capacity that makes a dependency local and
\* once under a capacity that makes it global ends with the same output
\* values of every item and the same flags: every capacity ends as the run
\* with all items in one block does
C21_LocalGlobalEquivalence ==
    (invocation = "reinit" /\ has_storage /\ AllDone) =>
        /\ Results.out = prior.out
        /\ Results.flags = prior.flags

\* the second run of the diamond has completed with one item per block,
\* every dependency global, after a first run with all four items in one
\* block, every dependency local
C21_Witness ==
    /\ invocation = "reinit"
    /\ has_storage
    /\ AllDone
    /\ deps = Diamond
    /\ prior.capacity = Cardinality(DOMAIN Diamond)
    /\ local_dependency_count = 1
    /\ \A g \in Groups : \A t \in Tids : Len(rd[g][t]) = Len(deps[work_id[g][t]])

\* --------------------------------------------- malformed dependency graphs
\* the graphs in which every item waits for at most one item, any item of
\* the range: itself, a larger one, one on a cycle, or a smaller one
SingleWaitGraphs(n) ==
    {[w \in 0 .. n - 1 |-> IF f[w] = n THEN <<>> ELSE <<f[w]>>] :
        f \in [0 .. n - 1 -> 0 .. n]}

ViolationInit ==
    /\ \E sh \in Shapes : InitShape(sh)
    /\ deps \in SingleWaitGraphs(num_elements)
    /\ kernel = "contract"
    /\ InitStore
    /\ InitThreads

ViolationSpec == ViolationInit /\ [][Next]_vars

\* item a is item b or waits, through at most n further items, for item b
RECURSIVE WaitsOnIn(_, _, _)
WaitsOnIn(a, b, n) ==
    \/ a = b
    \/ /\ n > 0
       /\ \E k \in 1 .. Len(deps[a]) : WaitsOnIn(deps[a][k], b, n - 1)

WaitsOn(a, b) == WaitsOnIn(a, b, num_elements)

\* the positions of a thread: none of them reports an error or gives up
Positions ==
    {"pending", "ctor", "ctor_sync", "peek", "wait_poll", "wait_sync",
     "write", "mr_sync", "mr_local", "mr_global", "done"}

\* C22 as claimed: a wait(d) with d >= get_work_id() never returns, so every
\* wait that has returned was for a smaller item
C22_ForwardWaitNeverReturns ==
    \A g \in Groups, t \in Tids :
        \A k \in 1 .. Len(rd[g][t]) : rd[g][t][k][1] < work_id[g][t]

\* C22: a wait(d) for the caller's own item, or for an item that waits,
\* directly or through others, for the caller's item (a cycle), never
\* returns: its loop cannot be left and no lane is released from it; a
\* wait(d) for a larger item returns only with the polled flag Ready, as any
\* wait does; no thread is ever at a position other than those of the
\* constructor, wait, the computation and mark_ready
C22_CyclicWaitNeverReturns ==
    \A g \in Groups, t \in Tids :
        /\ pc[g][t] \in Positions
        /\ \A k \in 1 .. Len(rd[g][t]) :
              /\ ~WaitsOn(rd[g][t][k][1], work_id[g][t])
              /\ PolledWord(g, t, rd[g][t][k][1]) = Ready
        /\ (pc[g][t] = "wait_sync" /\ get_lane(t) = 0)
              => ~WaitsOn(Dependency(g, t), work_id[g][t])
        /\ (pc[g][t] = "wait_poll" /\ WaitsOn(Dependency(g, t), work_id[g][t]))
              => ~ENABLED (WaitPoll(g, t) /\ pc'[g][t] # "wait_poll")

\* one lane-group spins in wait for its own item while another has returned
\* from a wait for a larger item, and no thread can do anything but spin
C22_Witness ==
    /\ \E g \in Groups, t \in Tids :
          /\ pc[g][t] = "wait_poll"
          /\ Dependency(g, t) = work_id[g][t]
    /\ \E g \in Groups, t \in Tids :
          /\ Len(rd[g][t]) > 0
          /\ rd[g][t][1][1] > work_id[g][t]
    /\ \A g \in Groups, t \in Tids : pc[g][t] \in {"wait_poll", "wait_sync", "done"}

\* ----------------------------------------- reuse of the storage, C23
\* the launches of Spec running the kernel in which a lane-group whose work id
\* is no item waits for every item and returns
ReuseInit ==
    /\ \E sh \in Shapes : InitShape(sh)
    /\ deps \in ContractGraphs(num_elements)
    /\ kernel = "probe"
    /\ InitStore
    /\ InitThreads

\* the same launch a second time, with or without syncfree_storage
\* constructed again in between
ReuseNext ==
    \/ \E reinit \in BOOLEAN :
          Reinvoke(<<block_size, subwarp_size>>, num_groups, max_resident, reinit)
    \/ Storage
    \/ Next

ReuseSpec == ReuseInit /\ [][ReuseNext]_vars

\* the blocks obtained the counter values first, first + 1, ... in the order
\* in which they claimed
ClaimsCountFrom(first) ==
    \A k \in 1 .. Len(order) : CounterValueOf(order[k]) = first + k - 1

\* C23: with syncfree_storage constructed again between two invocations the
\* second starts with every flag NotReady and the counter 0, its blocks
\* obtain the counter values from 0 and work ids within the items, every
\* wait of it returns after a store of this invocation to the flag or slot
\* polled, and it ends with the outputs and flags of the first; without
\* it the blocks of the second invocation obtain the counter values from G,
\* every flag is Ready throughout, and every wait that returns has polled a
\* flag to which no thread of this invocation has stored
C23_ReuseNeedsReinit ==
    /\ (invocation = "reinit" /\ has_storage) =>
          /\ NothingLaunched => \A i \in DOMAIN status : status[i] = 0
          /\ ClaimsCountFrom(0)
          /\ \A g \in Groups, t \in Tids :
                /\ Constructed(g) => work_id[g][t] \in Items
                /\ \A k \in 1 .. Len(rd[g][t]) : Published(g, rd[g][t][k][1])
          /\ AllDone =>
                /\ Results.out = prior.out
                /\ Results.flags = prior.flags
    /\ invocation = "reuse" =>
          /\ ClaimsCountFrom(num_groups)
          /\ AllReady
          /\ \A g \in Groups, t \in Tids :
                \A k \in 1 .. Len(rd[g][t]) :
                    /\ ~IsLocal(g, t, rd[g][t][k][1])
                    /\ stores[rd[g][t][k][1]] = <<>>

\* the second invocation on the storage as the first left it has completed:
\* a block obtained counter value G, its waits have returned, and no flag was
\* stored to
C23_Witness ==
    /\ invocation = "reuse"
    /\ AllDone
    /\ num_groups > 1
    /\ \E g \in Groups : CounterValueOf(g) = num_groups
    /\ \A g \in Groups, t \in Tids : Len(rd[g][t]) = num_elements
    /\ \A w \in Items : stores[w] = <<>>

\* ------------------------------------------------- publication order, C24
\* lane 0 of the lane-group of block g that owns shared slot j
SlotOwner(j) == j * subwarp_size

\* C24: a shared slot becomes Ready only by a step of lane 0 of its owner out
\* of the local store of mark_ready, into the slot work id mod capacity; a
\* Status Store flag becomes Ready only by the next step of that lane, the
\* global store, into the flag of its work id, with the slot Ready already;
\* so whenever flag w is Ready the slot of w in the owning block is Ready, and
\* when lane 0 has completed mark_ready both are; no other lane ever stands
\* at a store
C24_LocalBeforeGlobal ==
    /\ [](\A g \in Groups, t \in Tids :
            /\ pc[g][t] \in {"mr_local", "mr_global"} => get_lane(t) = 0
            /\ (Constructed(g) /\ get_lane(t) = 0) =>
                  LET w == work_id[g][t]
                      slot == local[g].status[w % local_dependency_count]
                  IN /\ status[w] = Ready => slot = Ready
                     /\ pc[g][t] = "mr_global" => slot = Ready
                     /\ pc[g][t] = "done" => (slot = Ready /\ status[w] = Ready))
    /\ [][\A g \in Groups, j \in Slots :
             (local[g].status[j] # Ready /\ local'[g].status[j] = Ready) =>
                 /\ pc[g][SlotOwner(j)] = "mr_local"
                 /\ pc'[g][SlotOwner(j)] = "mr_global"
                 /\ j = work_id[g][SlotOwner(j)] % local_dependency_count
                 /\ UNCHANGED status]_vars
    /\ [][\A w \in Items :
             (status[w] # Ready /\ status'[w] = Ready) =>
                 \E g \in Groups, t \in Tids :
                     /\ get_lane(t) = 0
                     /\ work_id[g][t] = w
                     /\ pc[g][t] = "mr_global"
                     /\ pc'[g][t] = "done"
                     /\ local[g].status[w % local_dependency_count] = Ready
                     /\ UNCHANGED local]_vars

\* lane 0 of a two-lane lane-group stands between its two stores: its slot
\* is Ready and its flag is not, while its block is resident and another
\* lane-group of the block has published both
C24_Witness ==
    \E g \in Groups, t \in Tids :
        /\ subwarp_size = 2
        /\ local_dependency_count = 2
        /\ pc[g][t] = "mr_global"
        /\ local[g].status[work_id[g][t] % local_dependency_count] = Ready
        /\ status[work_id[g][t]] = NotReady
        /\ \E u \in Tids :
              /\ work_id[g][u] # work_id[g][t]
              /\ pc[g][u] = "done"
              /\ status[work_id[g][u]] = Ready

\* ------------------------------------------- mark_ready without a store, C25
\* the launches of Spec on a scheduler whose mark_ready lacks for every item
\* one of its two stores
OmitInit ==
    /\ \E sh \in Shapes : InitShape(sh)
    /\ deps \in ContractGraphs(num_elements)
    /\ kernel = "omit"
    /\ InitStore
    /\ InitThreads

OmitNext ==
    \/ \E g \in Groups : Launch(g)
    \/ \E g \in Groups, t \in Tids : Constructor(g, t)
    \/ \E g \in Groups : CtorSync(g)
    \/ \E g \in Groups, t \in Tids : WaitPoll(g, t)
    \/ \E g \in Groups, s \in Slots : WaitSync(g, s)
    \/ \E g \in Groups, t \in Tids : WriteOutput(g, t)
    \/ \E g \in Groups, s \in Slots : MarkReadySync(g, s)
    \/ \E g \in Groups, t \in Tids :
          /\ pc[g][t] = "mr_local"
          /\ omits[work_id[g][t]] # "local"
          /\ MarkReadyLocal(g, t)
    \/ \E g \in Groups, t \in Tids :
          /\ pc[g][t] = "mr_local"
          /\ omits[work_id[g][t]] = "local"
          /\ MarkReadyLocal_Omitted(g, t)
    \/ \E g \in Groups, t \in Tids :
          /\ pc[g][t] = "mr_global"
          /\ omits[work_id[g][t]] # "global"
          /\ MarkReadyGlobal(g, t)
    \/ \E g \in Groups, t \in Tids :
          /\ pc[g][t] = "mr_global"
          /\ omits[work_id[g][t]] = "global"
          /\ MarkReadyGlobal_Omitted(g, t)

OmitSpec == OmitInit /\ [][OmitNext]_vars

\* thread (g, t) waiting for item d polls the word the mark_ready of d does
\* not store to: the shared slot when the local store is left out, the
\* Status Store flag when the global store is left out
Starved(g, t, d) ==
    IF omits[d] = "local" THEN IsLocal(g, t, d) ELSE ~IsLocal(g, t, d)

\* C25: when mark_ready leaves out the local store for an item no wait for
\* it by a lane-group of the owning block ever returns, and when it leaves
\* out the global store no wait for it by a lane-group of another block ever
\* returns: the loop of such a wait cannot be left and no lane is released
\* from it
C25_BothStoresNeeded ==
    \A g \in Groups, t \in Tids :
        /\ \A k \in 1 .. Len(rd[g][t]) : ~Starved(g, t, rd[g][t][k][1])
        /\ (pc[g][t] = "wait_sync" /\ get_lane(t) = 0)
              => ~Starved(g, t, Dependency(g, t))
        /\ (pc[g][t] = "wait_poll" /\ Starved(g, t, Dependency(g, t)))
              => ~ENABLED (WaitPoll(g, t) /\ pc'[g][t] # "wait_poll")

\* the owner of an item has completed a mark_ready without the local store:
\* a lane-group of its block spins in wait for the item, while a lane-group
\* of another block has returned from its wait for the same item
C25_Witness ==
    \E g \in Groups, t \in Tids, h \in Groups, u \in Tids :
        /\ g # h
        /\ pc[g][t] = "wait_poll"
        /\ IsLocal(g, t, Dependency(g, t))
        /\ omits[Dependency(g, t)] = "local"
        /\ \E o \in Tids :
              /\ work_id[g][o] = Dependency(g, t)
              /\ pc[g][o] = "done"
        /\ Len(rd[h][u]) > 0
        /\ rd[h][u][1][1] = Dependency(g, t)

\* --------------------------------------------- broadcast of the offset, C26
\* C26: the counter is changed, and a block's base offset written, only by a
\* constructor step of thread 0, once per block, the one adding 1 and the
\* other storing the value read times block_size; a thread holds a block id
\* or a work id only when thread 0 of its block has written the offset and
\* every thread of the block has reached the barrier; and the threads of a
\* block all hold the counter value thread 0 obtained as block id and the
\* work ids that value gives
C26_OneClaimBroadcast ==
    /\ [](/\ \A g \in Groups :
               Cardinality({k \in 1 .. Len(order) : order[k] = g}) =
                   IF Claimed(g) THEN 1 ELSE 0
          /\ \A g \in Groups, t \in Tids :
               (block_id[g][t] # -1 \/ work_id[g][t] # -1) =>
                   /\ Claimed(g)
                   /\ Constructed(g)
                   /\ local[g].block_offset # Uninit
                   /\ block_id[g][t] = CounterValueOf(g)
                   /\ work_id[g][t] = WorkIdOf(BlockOffset(CounterValueOf(g)), t)
                   /\ block_id[g][t] = block_id[g][0])
    /\ [][\A g \in Groups :
             (local'[g].block_offset # local[g].block_offset /\ Resident(g)) =>
                 /\ pc[g][0] = "ctor"
                 /\ pc'[g][0] = "ctor_sync"
                 /\ \A t \in Tids \ {0} : pc'[g][t] = pc[g][t]
                 /\ local'[g].block_offset = BlockOffset(status[num_elements])
                 /\ status'[num_elements] = status[num_elements] + 1]_vars
    /\ [][status'[num_elements] # status[num_elements] =>
             \E g \in Groups :
                 /\ pc[g][0] = "ctor"
                 /\ pc'[g][0] = "ctor_sync"
                 /\ status'[num_elements] = status[num_elements] + 1]_vars

\* the second block to claim has passed the barrier: its four threads hold
\* block id 1 and the work ids 2, 2, 3, 3
C26_Witness ==
    \E g \in Groups :
        /\ block_size = 4
        /\ subwarp_size = 2
        /\ Len(order) = 2
        /\ order[2] = g
        /\ Constructed(g)
        /\ \A t \in Tids : block_id[g][t] = 1
        /\ work_id[g] = [t \in Tids |-> 2 + (t \div 2)]

\* ------------------------------------------------ only wait suspends, C27
\* C27: a thread in the constructor, in peek or in mark_ready can always
\* complete the call by steps of its own block alone, whatever the other
\* blocks have done: its own statement is enabled, and at a barrier every
\* thread the barrier waits for stands at the barrier or at an enabled
\* statement before it, and the barrier opens once all have arrived
C27_OnlyWaitSuspends ==
    \A g \in Groups, t \in Tids :
        /\ pc[g][t] = "ctor" => ENABLED Constructor(g, t)
        /\ pc[g][t] = "ctor_sync" =>
              /\ \A u \in Tids : pc[g][u] \in {"ctor", "ctor_sync"}
              /\ (\A u \in Tids : pc[g][u] = "ctor_sync") => ENABLED CtorSync(g)
        /\ pc[g][t] = "peek" => ENABLED (Peek(g, t) /\ pc'[g][t] # "peek")
        /\ pc[g][t] = "write" => ENABLED WriteOutput(g, t)
        /\ pc[g][t] = "mr_sync" =>
              /\ \A u \in SubwarpTids(SubwarpOf(t)) :
                    pc[g][u] \in {"write", "mr_sync"}
              /\ (\A u \in SubwarpTids(SubwarpOf(t)) : pc[g][u] = "mr_sync")
                    => ENABLED MarkReadySync(g, SubwarpOf(t))
        /\ pc[g][t] = "mr_local" => ENABLED MarkReadyLocal(g, t)
        /\ pc[g][t] = "mr_global" => ENABLED MarkReadyGlobal(g, t)

\* lane 0 of a lane-group stands at its global store while the flag of the
\* item before its own is not Ready and a thread of another block spins in
\* wait
C27_Witness ==
    \E g \in Groups, t \in Tids, h \in Groups, u \in Tids :
        /\ g # h
        /\ pc[g][t] = "mr_global"
        /\ work_id[g][t] > 0
        /\ status[work_id[g][t] - 1] = NotReady
        /\ pc[h][u] = "wait_poll"
        /\ spun[h][u]

\* --------------------------------------------- wait and peek only read, C28
\* thread (g, t) is in a call of wait or peek
InWaitOrPeek(g, t) == pc[g][t] \in {"peek", "wait_poll", "wait_sync"}

\* C28: a step of a thread in wait or in peek (an iteration of the loop of
\* wait, leaving the loop, the sync() of wait, peek's load) changes no
\* Status Store flag, not the counter, no shared slot, no base offset, no
\* block id and no work id, none of the views stored with the flags and no
\* output, and moves no thread outside the caller's lane-group; get_work_id
\* is no step, the work id of a thread never changes once it is set
C28_WaitPeekReadOnly ==
    /\ [][\A g \in Groups, t \in Tids :
             (/\ InWaitOrPeek(g, t)
              /\ \/ pc'[g][t] # pc[g][t]
                 \/ spun'[g][t] # spun[g][t]
                 \/ peeked'[g][t] # peeked[g][t]) =>
                 /\ UNCHANGED <<status, local, work_id, block_id, status_view,
                                local_view, stores, out, order>>
                 /\ \A h \in Groups, u \in Tids :
                       pc'[h][u] # pc[h][u] =>
                           (h = g /\ SubwarpOf(u) = SubwarpOf(t))]_vars
    /\ [][\A g \in Groups, t \in Tids :
             work_id[g][t] # -1 => work_id'[g][t] = work_id[g][t]]_vars

\* a thread has returned from a peek and a wait on a local and on a global
\* dependency and stands before its computation, with both flags Ready still
C28_Witness ==
    \E g \in Groups, t \in Tids :
        /\ Len(rd[g][t]) >= 2
        /\ \E k \in 1 .. Len(rd[g][t]) :
              /\ IsLocal(g, t, rd[g][t][k][1])
              /\ PolledWord(g, t, rd[g][t][k][1]) = Ready
        /\ \E k \in 1 .. Len(rd[g][t]) :
              /\ ~IsLocal(g, t, rd[g][t][k][1])
              /\ PolledWord(g, t, rd[g][t][k][1]) = Ready
        /\ pc[g][t] = "write"

\* ------------------------------------- more lane-groups than items, C29
\* the launches of Spec and those with one lane-group more than there are
\* items, running the kernel in which every lane-group calls mark_ready
OversizedInit ==
    /\ \E sh \in Shapes, spare \in 0 .. 1 :
          /\ block_size = sh.inst[1]
          /\ index_bits = IntBits
          /\ subwarp_size = sh.inst[2]
          /\ num_groups = sh.groups
          /\ num_elements = sh.groups * (sh.inst[1] \div sh.inst[2]) - spare
          /\ max_resident = sh.resident
    /\ num_elements >= 1
    /\ deps \in ContractGraphs(num_elements)
    /\ kernel = "unguarded"
    /\ InitStore
    /\ InitThreads

OversizedSpec == OversizedInit /\ [][Next]_vars

\* the step is the atomic_add of a constructor
IsFetchAndAdd ==
    \E g \in Groups :
        /\ pc[g][0] = "ctor"
        /\ pc'[g][0] = "ctor_sync"
        /\ status'[num_elements] = status[num_elements] + 1

\* what a step of thread (g, t) in mark_ready may change: the status word at
\* its work id, to Ready, and the shared slot work id mod capacity of its
\* block
MarkReadyFrame(g, t) ==
    LET w == work_id[g][t]
    IN /\ \A i \in DOMAIN status :
             status'[i] # status[i] => (i = w /\ status'[i] = Ready)
       /\ \A h \in Groups :
             /\ local'[h].block_offset = local[h].block_offset
             /\ \A j \in Slots :
                   local'[h].status[j] # local[h].status[j] =>
                       (h = g /\ j = w % local_dependency_count
                            /\ local'[h].status[j] = Ready)

\* C29 as claimed: the counter slot is changed only by the atomic_add of a
\* constructor, also when a lane-group with work id N calls mark_ready
C29_CounterOnlyByConstructor ==
    [][status'[num_elements] # status[num_elements] => IsFetchAndAdd]_vars

\* C29: a step of mark_ready changes only the status word at the caller's
\* work id, by storing Ready, and the shared slot work id mod capacity of its
\* block; for a work id below N that word is a flag and the counter is left
\* alone; the counter slot is changed only by the atomic_add of a
\* constructor or by the global store of the mark_ready of the lane-group
\* whose work id is N, which stores Ready over the count
C29_MarkReadyStoresAtWorkId ==
    /\ [][\A g \in Groups, t \in Tids :
             (InMarkReady(g, t) /\ pc'[g][t] # pc[g][t]) =>
                 /\ MarkReadyFrame(g, t)
                 /\ work_id[g][t] < num_elements =>
                       status'[num_elements] = status[num_elements]]_vars
    /\ [][status'[num_elements] # status[num_elements] =>
             \/ IsFetchAndAdd
             \/ \E g \in Groups, t \in Tids :
                   /\ work_id[g][t] = num_elements
                   /\ pc[g][t] = "mr_global"
                   /\ status'[num_elements] = Ready]_vars

\* two blocks have run over three items: the lane-group with work id 3 has
\* completed mark_ready and the counter slot holds 1, not the 2 blocks
C29_Witness ==
    /\ num_groups = 2
    /\ num_elements = 3
    /\ AllDone
    /\ Len(stores[num_elements]) = 1
    /\ status[num_elements] = Ready
    /\ AllReady

\* ------------------------------------- consumers of an exited block, C30
\* the shared storage of a block whose threads have all returned is given
\* up: its words hold anything from then on
Discarded(g) ==
    local[g] = [status |-> [i \in Slots |-> Uninit], block_offset |-> Uninit]

Exit(g) ==
    /\ Exited(g)
    /\ ~Discarded(g)
    /\ local' = [local EXCEPT ![g] =
                   [status |-> [i \in Slots |-> Uninit], block_offset |-> Uninit]]
    /\ UNCHANGED <<config, peeked, spun, marked, status, status_view,
                   local_view, work_id, block_id, pc, dep_idx, out, vis, acc,
                   rd, order, stores>>

ExitNext ==
    \/ \E g \in Groups : Exit(g)
    \/ PeekNext

\* the launches of PeekSpec, with the shared storage of an exited block
\* given up, on a device that keeps running
ExitSpec == PeekInit /\ [][ExitNext]_vars /\ WF_vars(ExitNext)

\* lane 0 of the lane-group that owns item d has returned from mark_ready
OwnerDone(d) ==
    \E h \in Groups, o \in Tids :
        /\ work_id[h][o] = d
        /\ get_lane(o) = 0
        /\ pc[h][o] = "done"

\* thread (g, t) is about to load the flag of a dependency of another block,
\* in peek or in the loop of wait
AtGlobalLoad(g, t) ==
    /\ pc[g][t] \in {"peek", "wait_poll"}
    /\ ~IsLocal(g, t, Dependency(g, t))

\* C30: a thread that loads, in peek or in the loop of wait, the flag of a
\* dependency owned by another block reads Ready and nothing else once the
\* owner has returned from mark_ready, whether or not the owner's block has
\* exited and its shared storage is given up, and it reads what the Status
\* Store holds in any case: peek then returns true and the loop of wait is
\* left; and no thread stays in the loop of wait on a flag of another block
\* that is Ready: a waiter that came first is released after the owner's
\* global store
C30_GlobalFlagOutlivesOwner ==
    /\ [](\A g \in Groups, t \in Tids :
            AtGlobalLoad(g, t) =>
                /\ FlagOf(g, t, Dependency(g, t)) = {status[Dependency(g, t)]}
                /\ OwnerDone(Dependency(g, t)) =>
                      /\ FlagOf(g, t, Dependency(g, t)) = {Ready}
                      /\ pc[g][t] = "wait_poll" =>
                            ENABLED (WaitPoll(g, t) /\ pc'[g][t] = "wait_sync")
                      /\ pc[g][t] = "peek" =>
                            /\ ENABLED (Peek(g, t) /\ peeked'[g][t] = "true")
                            /\ ~ENABLED (Peek(g, t) /\ peeked'[g][t] = "false"))
    /\ <>[](\A g \in Groups, t \in Tids :
              ~(/\ pc[g][t] = "wait_poll"
                /\ AtGlobalLoad(g, t)
                /\ status[Dependency(g, t)] = Ready))

\* one block at a time is resident: the first has exited and its shared
\* storage is given up, and a thread of the second, whose peek of an item of
\* the first returned true, stands in the loop of wait for that item
C30_Witness ==
    \E g \in Groups, t \in Tids, h \in Groups :
        /\ max_resident = 1
        /\ h # g
        /\ Exited(h)
        /\ Discarded(h)
        /\ pc[g][t] = "wait_poll"
        /\ peeked[g][t] = "true"
        /\ ~IsLocal(g, t, Dependency(g, t))
        /\ OwnedBy(h, Dependency(g, t))

\* ------------------------------------------- the private mirror, C31
\* lane 0 of the lane-group with local index j of block g has executed the
\* local store of mark_ready
LocalStoreDone(g, j) == pc[g][SlotOwner(j)] \in {"mr_global", "done"}

\* C31: in a block whose threads have passed the entry barrier shared slot j
\* is Ready exactly when lane 0 of the lane-group with local index j of that
\* block has executed its local store, and NotReady otherwise; and a slot of
\* such a block is changed only by the local store of that lane, no step of
\* any other thread of the block or of another block changes it
C31_LocalCacheIsPrivateMirror ==
    /\ [](\A g \in Groups, j \in Slots :
            Constructed(g) =>
                /\ local[g].status[j] \in {NotReady, Ready}
                /\ local[g].status[j] = Ready <=> LocalStoreDone(g, j))
    /\ [][\A g \in Groups, j \in Slots :
             (Constructed(g) /\ local'[g].status[j] # local[g].status[j]) =>
                 /\ pc[g][SlotOwner(j)] = "mr_local"
                 /\ pc'[g][SlotOwner(j)] = "mr_global"
                 /\ \A h \in Groups, u \in Tids :
                       pc'[h][u] # pc[h][u] => (h = g /\ u = SlotOwner(j))
                 /\ \A h \in Groups, i \in Slots :
                       (h # g \/ i # j) =>
                           local'[h].status[i] = local[h].status[i]]_vars

\* two blocks of two two-lane lane-groups are past their entry barriers: in
\* one slot 0 alone is Ready, in the other slot 1 alone
C31_Witness ==
    \E g \in Groups, h \in Groups :
        /\ g # h
        /\ subwarp_size = 2
        /\ local_dependency_count = 2
        /\ Constructed(g)
        /\ Constructed(h)
        /\ local[g].status[0] = Ready
        /\ local[g].status[1] = NotReady
        /\ local[h].status[0] = NotReady
        /\ local[h].status[1] = Ready

\* ------------------------------------------------ narrow IndexType, C32
\* the width of the IndexType of the instantiations run to the end of its
\* range
NarrowBits == 3

\* the blocks launched for an instantiation: as many as it takes for the
\* counter to reach the first value whose product with block_size leaves
\* IndexType, and no more than have all their work ids in IndexType
BlocksToLimit(inst) ==
    LET capacity == inst[1] \div inst[2]
        most == (IndexMax + 1) \div capacity
        first == (IndexMax + 1) \div inst[1] + 1
    IN IF first <= most THEN first ELSE most

\* the instantiations run over the narrow IndexType: blocks of two threads,
\* as two one-lane lane-groups and as one two-lane lane-group
WidthInstantiations == {<<2, 1>>, <<2, 2>>}

\* these instantiations over a narrow IndexType, one block resident at a time
WidthInit ==
    /\ index_bits = NarrowBits
    /\ \E inst \in WidthInstantiations :
          /\ block_size = inst[1]
          /\ subwarp_size = inst[2]
          /\ num_groups = BlocksToLimit(inst)
          /\ num_elements = BlocksToLimit(inst) * (inst[1] \div inst[2])
    /\ max_resident = 1
    /\ deps \in ContractGraphs(num_elements)
    /\ kernel = "contract"
    /\ InitStore
    /\ InitThreads

WidthSpec == WidthInit /\ [][Next]_vars

\* the work ids of the block that obtained counter value c are values of
\* IndexType
IdsRepresentable(c) == (c + 1) * local_dependency_count - 1 <= IndexMax

\* C32: the block that obtained counter value c (the (c + 1)-th to claim),
\* all of whose work ids are values of IndexType, holds the base offset
\* c * block_size, and its threads hold c as block id and
\* c * capacity + lane-group index as work id
C32_OffsetNeverWraps ==
    \A k \in 1 .. Len(order) :
        LET g == order[k]
            c == k - 1
        IN IdsRepresentable(c) =>
              /\ local[g].block_offset = c * block_size
              /\ Constructed(g) =>
                    \A t \in Tids :
                        /\ block_id[g][t] = c
                        /\ work_id[g][t] =
                               c * local_dependency_count + SubwarpOf(t)

\* ------------------------------------------- arguments of the lanes, C33
\* launches with lane-groups of two lanes: up to three blocks of one
\* lane-group, and one block of two lane-groups
LaneShapes ==
    {sh \in [groups : 1 .. 3, inst : {<<2, 2>>, <<4, 2>>}, resident : 1 .. 3] :
        /\ sh.resident <= sh.groups
        /\ sh.inst = <<4, 2>> => sh.groups = 1}

\* these launches, running the kernel in which the lanes other than lane 0
\* pass an item of their own to wait
LaneInit ==
    /\ \E sh \in LaneShapes : InitShape(sh)
    /\ deps \in ContractGraphs(num_elements)
    /\ kernel = "lanes"
    /\ InitStore
    /\ InitThreads

LaneSpec == LaneInit /\ [][Next]_vars

\* the thread that is lane 0 of lane-group s
LaneZero(s) == s * subwarp_size

\* lane 0 of lane-group s of block g has left the loop of its wait call
LeftLoop(g, s) == pc[g][LaneZero(s)] = "wait_sync"

\* the lanes of lane-group s of block g return from a wait call in this step
WaitReturns(g, s) == dep_idx'[g][s] # dep_idx[g][s]

\* C33: whatever the other lanes pass to wait, only lane 0 is ever in the
\* loop; it has left the loop only if the flag of the dependency it passed
\* itself is Ready; the lanes of a lane-group that have all arrived at the
\* sync() with lane 0 out of the loop can return at once; and the lanes
\* return from wait in one step, all of them together, and only with lane 0
\* out of the loop
C33_OnlyLaneZeroPolls ==
    /\ [](\A g \in Groups, t \in Tids :
             pc[g][t] = "wait_poll" => get_lane(t) = 0)
    /\ [](\A g \in Groups, s \in Slots :
             LeftLoop(g, s) =>
                Ready \in FlagOf(g, LaneZero(s), Dependency(g, LaneZero(s))))
    /\ [](\A g \in Groups, s \in Slots :
             (\A t \in SubwarpTids(s) : pc[g][t] = "wait_sync") =>
                ENABLED WaitSync(g, s))
    /\ [][\A g \in Groups, s \in Slots :
             WaitReturns(g, s) =>
                /\ LeftLoop(g, s)
                /\ \A t \in SubwarpTids(s) :
                      /\ pc[g][t] = "wait_sync"
                      /\ pc'[g][t] =
                            AfterWait(work_id[g][t], dep_idx'[g][s], t)
                      /\ Len(rd'[g][t]) = Len(rd[g][t]) + 1]_vars

\* a lane-group of two lanes has returned from its first wait call while
\* the flag of the item its lane 1 passed, not the dependency lane 0 passed,
\* is still NotReady in every place wait would poll it
C33_Witness ==
    \E g \in Groups, s \in Slots :
        LET w == work_id[g][LaneZero(s)]
        IN /\ kernel = "lanes"
           /\ subwarp_size = 2
           /\ Constructed(g)
           /\ w \in Items
           /\ dep_idx[g][s] = 2
           /\ lane_deps[w] # deps[w][1]
           /\ FlagOf(g, LaneZero(s) + 1, lane_deps[w]) = {NotReady}

=============================================================================
